---- MODULE Spec2Model ----
(***************************************************************************)
(* SkyChat: the association between an ATProto DID and an XMTP inbox.      *)
(*                                                                         *)
(* The model follows src/src/App.tsx (login, session restore, the link     *)
(* flow, the "welcome back" check), src/src/utils/inboxResolver.ts and     *)
(* NewChatModal in src/src/components/InboxView.tsx (resolution and the    *)
(* new-chat flow) and the reference verifier of src/atproto-xmtp-doc.md.   *)
(* The repository host (PDS) and the XMTP network are the environment:     *)
(* their state is the record slot of every DID and the installation list   *)
(* of every inbox.                                                         *)
(***************************************************************************)
EXTENDS Naturals, Sequences, FiniteSets, TLC

\* ---------------------------------------------------------------- bounds

\* Most installations an inbox holds at a time.
MaxInstallations == 2
\* Values of the wall clock (createdAt is drawn from 0..MaxClock).
MaxClock == 1
\* The longest signature byte sequence drawn for the record codec.
MaxSignatureLen == 4
\* loadConversations calls in flight at a time, and conversation streams
\* started in the life of the component.
MaxLoads == 2
MaxStreams == 2
\* Items the displayed list holds at most: a stream prepends none beyond that.
MaxShown == 3
\* Messages of one conversation, and loadMessages calls in flight.
MaxMessages == 2
MaxMsgLoads == 2

\* ------------------------------------------------------------- universes

DIDs == {"did:plc:abc", "did:plc:other"}
\* A DID whose repository does not exist on the host.
NoRepoDid == "did:plc:norepo"

Inboxes == {"0xInbox1", "0xInbox2"}
\* An inbox ID the XMTP network has never heard of.
UnknownInbox == "0xNoSuchInbox"
\* A field that is absent from a record (undefined in the code).
Missing == "undefined"

\* Installation keys; the key names its public key bytes.
Keys == {"K1", "K2", "K3", "K4"}
KeyOwner(k) == IF k \in {"K2", "K4"} THEN "0xInbox2" ELSE "0xInbox1"

\* The wallet this browser generates, the inbox XMTP derives from it and the
\* installation key of this browser's XMTP database.
LocalWallet == "w1"
LocalInbox == "0xInbox1"
LocalKey == "K1"

NoAgent == "null"
NoClient == "null"
NoKey == "null"
NoSession == "null"

OtherDid(d) == IF d = "did:plc:abc" THEN "did:plc:other" ELSE "did:plc:abc"

\* ------------------------------------------------- signature primitive

\* What verification is handed when the bytes are no signature of any key.
GarbageBytes == [key |-> "none", msg |-> "none"]

\* client.signWithInstallationKey(text): the signature of the installation
\* key over exactly the text it is given.
SignWithInstallationKey(key, text) == [key |-> key, msg |-> text]

\* A verification that looks at the key and not at the text.
VerifyKeyOnly(text, bytes, publicKey) == bytes.key = publicKey

\* verifySignedWithPublicKey(signatureText, signatureBytes, publicKey): true
\* exactly when the bytes are the signature of that key over that text.
VerifySignedWithPublicKey(text, bytes, publicKey) ==
    bytes.key = publicKey /\ bytes.msg = text

\* btoa(String.fromCharCode(...bytes)): the base64 string of the bytes.
Btoa(bytes) == [kind |-> "base64", bytes |-> bytes]
\* A string that is not base64, and an absent field.
NotBase64 == [kind |-> "text", bytes |-> GarbageBytes]
Undefined == [kind |-> "undefined", bytes |-> GarbageBytes]

\* Buffer.from(s, "base64") on a string: never throws, a string that is not
\* base64 decodes to bytes that are no signature.
BufferFromBase64(s) == IF s.kind = "base64" THEN s.bytes ELSE GarbageBytes

\* ------------------------------------------------------------- records

\* The record linkIdentities publishes.
InboxRecord(id, signatureString, createdAt) ==
    [id |-> id, verificationSignature |-> signatureString, createdAt |-> createdAt]

VARIABLES
    \* environment: repository host and XMTP network
    coll,          \* coll[d]: the records of collection org.xmtp.inbox of d (rkey self)
    otherKeys,     \* otherKeys[d]: the records of the collection under keys listed before self
    installs,      \* installs[i]: the installations of inbox i, as fetchInboxStates lists them
    revoked,       \* revoked[i]: the installation keys revoked from inbox i
    now,           \* the wall clock
    \* App component state and localStorage
    agent, xmtpClient, status, isLinked, isLoading, hasExistingAccount,
    walletKey, storedSession,
    \* the running async handler of App and its locals
    pc, flowDid, flowHasAccount, isNew, signatureBytes, inboxStates,
    \* NewChatModal
    chatPc, identifier, chatDid, chatRecords, inboxId, error, isResolving, dms,
    \* NewChatModal: the isOpen prop, and the trimmed identifier handleSubmit runs on
    isOpen, chatIdentifier,
    \* the reference flow of the document: lookup, then verifySignature
    docPc, docDid, docValue, docResult,
    \* the record codec: a record as signed, as stored, and as read back
    codecPc, rawRecord, wire, decoded,
    \* the XMTP client's conversations: what conversations.list() returns,
    \* and the consent state of each conversation
    netList, netConsent,
    \* InboxView: component state, the loadConversations calls in flight, the
    \* conversation streams that were started, the parent's selection
    conversations, ivLoading, ivError, loads, streams, selected,
    \* MessageView: the conversation prop, what messages() returns for each
    \* conversation, component state, the loadMessages calls awaiting
    \* messages(), the sendMessage call awaiting sendText()
    conversation, netMessages,
    messages, newMessage, mvLoading, mvSending, mvError, msgLoads, sending,
    \* App: the backup and restore dialogs, and the handleRestore call awaiting
    \* the file and the decryption
    showBackupModal, showRestoreModal, restorePassword, restoreFile, restoring

envVars == <<coll, otherKeys, installs, revoked, now>>
appVars == <<agent, xmtpClient, status, isLinked, isLoading, hasExistingAccount,
             walletKey, storedSession>>
flowVars == <<pc, flowDid, flowHasAccount, isNew, signatureBytes, inboxStates>>
chatVars == <<chatPc, identifier, chatDid, chatRecords, inboxId, error, isResolving, dms,
              isOpen, chatIdentifier>>
docVars == <<docPc, docDid, docValue, docResult>>
codecVars == <<codecPc, rawRecord, wire, decoded>>
inboxVars == <<netList, netConsent, conversations, ivLoading, ivError, loads, streams,
               selected>>
msgVars == <<conversation, netMessages, messages, newMessage, mvLoading, mvSending,
             mvError, msgLoads, sending>>
modalVars == <<showBackupModal, showRestoreModal, restorePassword, restoreFile, restoring>>
viewVars == <<inboxVars, msgVars, modalVars>>
vars == <<envVars, appVars, flowVars, chatVars, docVars, codecVars, viewVars>>

\* ------------------------------------------------- repository and network

\* com.atproto.repo.listRecords({repo, collection}): the records of the
\* collection under every key, in the host's record-key order; it throws for
\* a repository that does not exist.
RepoExists(d) == d \in DIDs
ListRecords(d) == otherKeys[d] \o coll[d]

\* com.atproto.repo.getRecord({repo, collection, rkey: 'self'}) finds a record.
HasRecord(d) == Len(coll[d]) > 0
GetRecord(d) == coll[d][1]

\* A write that keeps the id of the record already in the slot.
PutRecordMerges(c, d, record) ==
    IF Len(c[d]) > 0
    THEN [c EXCEPT ![d] = <<[record EXCEPT !.id = c[d][1].id]>>]
    ELSE [c EXCEPT ![d] = <<record>>]

\* com.atproto.repo.putRecord({repo, collection, rkey: 'self', record}).
PutRecord(c, d, record) == [c EXCEPT ![d] = <<record>>]

\* Client.fetchInboxStates([inboxId]): one state per inbox the network knows.
FetchInboxStates(id) ==
    IF id \in Inboxes
    THEN <<[inboxId |-> id, installations |-> installs[id]]>>
    ELSE <<>>

\* Client.create(signer): the client of the wallet's inbox; the first run in
\* this browser registers the browser's installation key with the inbox.
InboxIdOf(wallet) == LocalInbox
KeyInList(k, list) == \E n \in 1..Len(list) : list[n].bytes = k
ClientCreate(ins, rev) ==
    IF KeyInList(LocalKey, ins[LocalInbox]) \/ LocalKey \in rev[LocalInbox]
    THEN ins
    ELSE [ins EXCEPT ![LocalInbox] = Append(@, [bytes |-> LocalKey])]

\* ------------------------------------------------------------ verifier

\* A loop that gives up after the first installation.
VerifyFirstOnly(installations, did, bytes) ==
    /\ installations # <<>>
    /\ VerifySignedWithPublicKey(did, bytes, Head(installations).bytes)

\* A loop whose flag starts out true.
VerifyStartsTrue(installations, did, bytes) == TRUE

\* linkIdentities, the loop over inboxState.installations: true at the first
\* installation whose key verifies the bytes over the DID, false when the
\* list is exhausted.
RECURSIVE VerifyLoop(_, _, _)
VerifyLoop(installations, did, bytes) ==
    IF installations = <<>>
    THEN FALSE
    ELSE IF VerifySignedWithPublicKey(did, bytes, Head(installations).bytes)
         THEN TRUE
         ELSE VerifyLoop(Tail(installations), did, bytes)

\* verifySignature of the document, the loop: each round decodes the stored
\* string (Buffer.from throws a TypeError for an absent field) and tries one
\* installation.  The result is "true", "false" or the exception thrown.
RECURSIVE DocVerifyLoop(_, _, _)
DocVerifyLoop(installations, did, verificationSignature) ==
    IF installations = <<>>
    THEN "false"
    ELSE IF verificationSignature.kind = "undefined"
         THEN "TypeError"
         ELSE IF VerifySignedWithPublicKey(did,
                     BufferFromBase64(verificationSignature),
                     Head(installations).bytes)
              THEN "true"
              ELSE DocVerifyLoop(Tail(installations), did, verificationSignature)

\* verifySignature(inboxId, did, verificationSignature) of the document on the
\* states fetchInboxStates returned: const [inboxState] = ... leaves inboxState
\* undefined when no state came back, and inboxState.installations then throws.
VerifySignature(states, did, verificationSignature) ==
    IF Len(states) = 0
    THEN "TypeError"
    ELSE DocVerifyLoop(states[1].installations, did, verificationSignature)

\* ------------------------------------------------ conversations and items

\* The conversations of the XMTP client: a DM with its peerInboxIds, and a
\* conversation of another kind, which has no such field.
Convs == {"c1", "c2"}
ConvObject(c) ==
    IF c = "c1"
    THEN [id |-> "c1", peerInboxIds |-> <<LocalInbox, "0xInbox2">>]
    ELSE [id |-> "c2"]

\* peerInboxIds.find(id => id !== xmtpClient.inboxId) || peerInboxIds[0] ||
\* 'unknown', or conv.id || 'unknown' without the field.
PeerInboxId(conv) ==
    IF "peerInboxIds" \in DOMAIN conv
    THEN LET others == SelectSeq(conv.peerInboxIds, LAMBDA id : id # LocalInbox) IN
         IF others # <<>> THEN others[1]
         ELSE IF conv.peerInboxIds # <<>> THEN conv.peerInboxIds[1]
         ELSE "unknown"
    ELSE conv.id

\* peerInboxId.slice(0, 8) + '...'
DisplayName(peerInboxId) ==
    IF peerInboxId = "0xInbox2" THEN "0xInbox2..."
    ELSE IF peerInboxId = "0xInbox1" THEN "0xInbox1..."
    ELSE IF peerInboxId = "c2" THEN "c2..."
    ELSE "unknown..."

\* The list item of a conversation whose consent state was read (the message
\* preview is left out), and the item of the inner catch.
ConversationItem(c, consentState) ==
    [conversation |-> c,
     peerInboxId |-> PeerInboxId(ConvObject(c)),
     displayName |-> DisplayName(PeerInboxId(ConvObject(c))),
     consentState |-> consentState]
FallbackItem(c) ==
    [conversation |-> c, peerInboxId |-> "unknown", displayName |-> "Unknown",
     consentState |-> "Unknown"]

\* A loadConversations call: where it stands, the result of list(), and the
\* conversationItems built so far.
NoLoad == [pc |-> "idle", convs |-> <<>>, items |-> <<>>]
LoadAt(where) == [pc |-> where, convs |-> <<>>, items |-> <<>>]

\* The messages of the network: the n-th message of conversation c, sent by
\* this inbox or by the peer.
Message(c, n, sender, content) ==
    [id |-> <<c, n>>, senderInboxId |-> sender, content |-> content]

\* msgs.map(...).reverse(): the MessageItems, in the reverse of the order
\* messages() returned (every message is a text; the date is left out).
MessageItem(msg) ==
    [id |-> msg.id, content |-> msg.content, senderInboxId |-> msg.senderInboxId,
     isFromMe |-> msg.senderInboxId = LocalInbox]
MessageItems(msgs) ==
    [k \in 1..Len(msgs) |-> MessageItem(msgs[Len(msgs) + 1 - k])]

NoSend == [conversation |-> NoClient, text |-> ""]

\* encryptPrivateKey: the backup file of a key under a password (AES-GCM with
\* a key derived from the password; salt and iv are left out).
EncryptPrivateKey(privateKey, password) ==
    [kind |-> "backup", key |-> privateKey, password |-> password]

\* A key of another device, the files the user may pick in the restore
\* dialog, and the passwords the user may type.
OtherWallet == "w2"
NoFile == [kind |-> "none", key |-> NoKey, password |-> ""]
CorruptFile == [kind |-> "corrupt", key |-> NoKey, password |-> ""]
BackupFiles ==
    {EncryptPrivateKey(LocalWallet, "pw"), EncryptPrivateKey(OtherWallet, "pw"), CorruptFile}
Passwords == {"", "pw", "wrong"}

\* decryptPrivateKey: JSON.parse or atob throws on a file that is no backup,
\* crypto.subtle.decrypt rejects under another password.
Throws == "throws"
DecryptPrivateKey(encryptedData, password) ==
    IF encryptedData.kind = "backup" /\ encryptedData.password = password
    THEN encryptedData.key
    ELSE Throws

\* handleRestore is not running.
NoRestore == [file |-> NoFile, password |-> ""]

\* What the user types into the message box, and String.prototype.trim on it.
Drafts == {"", " ", "hi", " hi "}
Trim(text) == IF text \in {"", " "} THEN "" ELSE "hi"

\* ---------------------------------------------------------------- Init

Init ==
    /\ coll = [d \in DIDs |-> <<>>]
    /\ otherKeys = [d \in DIDs |-> <<>>]
    /\ installs = [i \in Inboxes |->
                     IF i = "0xInbox2" THEN <<[bytes |-> "K2"]>> ELSE <<>>]
    /\ revoked = [i \in Inboxes |-> {}]
    /\ now = 0
    /\ agent = NoAgent
    /\ xmtpClient = NoClient
    /\ status = ""
    /\ isLinked = FALSE
    /\ isLoading = FALSE
    /\ hasExistingAccount = FALSE
    /\ walletKey = NoKey
    /\ storedSession = NoSession
    /\ pc = "idle"
    /\ flowDid = NoAgent
    /\ flowHasAccount = FALSE
    /\ isNew = FALSE
    /\ signatureBytes = GarbageBytes
    /\ inboxStates = <<>>
    /\ chatPc = "idle"
    /\ identifier = ""
    /\ isOpen = FALSE
    /\ chatIdentifier = ""
    /\ chatDid = NoAgent
    /\ chatRecords = <<>>
    /\ inboxId = Missing
    /\ error = "null"
    /\ isResolving = FALSE
    /\ dms = {}
    /\ docPc = "idle"
    /\ docDid = NoAgent
    /\ docValue = InboxRecord(Missing, Undefined, 0)
    /\ docResult = "none"
    /\ codecPc = "idle"
    /\ rawRecord = [id |-> Missing, bytes |-> <<>>, createdAt |-> 0]
    /\ wire = InboxRecord(Missing, <<>>, 0)
    /\ decoded = [id |-> Missing, bytes |-> <<>>, createdAt |-> 0]
    /\ netList = <<>>
    /\ netConsent = [c \in Convs |-> "Unknown"]
    /\ conversations = <<>>
    /\ ivLoading = TRUE
    /\ ivError = "null"
    /\ loads = [l \in 1..MaxLoads |-> IF l = 1 THEN LoadAt("list") ELSE NoLoad]
    /\ streams = <<[alive |-> TRUE, queue |-> <<>>]>>
    /\ selected = NoClient
    /\ conversation = NoClient
    /\ netMessages = [c \in Convs |-> <<>>]
    /\ messages = <<>>
    /\ newMessage = ""
    /\ mvLoading = FALSE
    /\ mvSending = FALSE
    /\ mvError = "null"
    /\ msgLoads = <<>>
    /\ sending = NoSend
    /\ showBackupModal = FALSE
    /\ showRestoreModal = FALSE
    /\ restorePassword = ""
    /\ restoreFile = NoFile
    /\ restoring = NoRestore

\* --------------------------------------------------------- environment

\* new Date(): the wall clock never runs backwards.
ClockReads == now..MaxClock

\* Records another client of this browser's user stores under d: the link of
\* the user's other inbox, and a record that names this browser's inbox over
\* a string that is no signature.
TabRecords(d, t) ==
    { InboxRecord("0xInbox2", Btoa(SignWithInstallationKey("K2", d)), t),
      InboxRecord(LocalInbox, NotBase64, t) }

\* Records of any content, as a third party or the record store itself may
\* put them under d: every id (an inbox, an unknown inbox, none) with a
\* signature of an installation key over d, a signature copied from the
\* record of the other DID, a string that is not base64, or none.
ThirdPartyIds == Inboxes \cup {UnknownInbox, Missing}
ThirdPartySignatures(d) ==
    { Btoa(SignWithInstallationKey("K2", d)),
      Btoa(SignWithInstallationKey("K3", d)),
      Btoa(SignWithInstallationKey("K4", d)),
      Btoa(SignWithInstallationKey("K2", OtherDid(d))),
      NotBase64, Undefined }
ThirdPartyRecords(d, t) ==
    { InboxRecord(id, sig, t) : id \in ThirdPartyIds, sig \in ThirdPartySignatures(d) }

\* The DID whose slot third parties write in the readers' environment; the
\* other DID is a user who never linked.
ReadDid == "did:plc:abc"

\* Another client of the DID's owner, or the record store itself, writes the
\* slot of d at time t.
OtherPublish(d, record, t) ==
    /\ now' = t
    /\ record.createdAt = t
    /\ coll' = PutRecord(coll, d, record)
    /\ UNCHANGED <<otherKeys, installs, revoked>>
    /\ UNCHANGED <<appVars, flowVars, chatVars, docVars, codecVars, viewVars>>

\* The slot of d is deleted.
DeleteSlot(d) ==
    /\ HasRecord(d)
    /\ coll' = [coll EXCEPT ![d] = <<>>]
    /\ UNCHANGED <<otherKeys, installs, revoked, now>>
    /\ UNCHANGED <<appVars, flowVars, chatVars, docVars, codecVars, viewVars>>

\* Another device registers its installation key with its inbox.
AddInstallation(k) ==
    LET i == KeyOwner(k) IN
    /\ k # LocalKey
    /\ ~KeyInList(k, installs[i])
    /\ k \notin revoked[i]
    /\ Len(installs[i]) < MaxInstallations
    /\ installs' = [installs EXCEPT ![i] = Append(@, [bytes |-> k])]
    /\ UNCHANGED <<coll, otherKeys, revoked, now>>
    /\ UNCHANGED <<appVars, flowVars, chatVars, docVars, codecVars, viewVars>>

\* An installation is revoked: the network drops it from the inbox state.
RevokeInstallation(k) ==
    LET i == KeyOwner(k) IN
    /\ KeyInList(k, installs[i])
    /\ installs' = [installs EXCEPT ![i] = SelectSeq(@, LAMBDA e : e.bytes # k)]
    /\ revoked' = [revoked EXCEPT ![i] = @ \cup {k}]
    /\ UNCHANGED <<coll, otherKeys, now>>
    /\ UNCHANGED <<appVars, flowVars, chatVars, docVars, codecVars, viewVars>>

\* The environment of the App: the user's other clients and devices.
AppEnv ==
    \/ \E d \in DIDs, t \in ClockReads : \E r \in TabRecords(d, t) : OtherPublish(d, r, t)
    \/ \E d \in DIDs : DeleteSlot(d)
    \/ \E k \in {"K3"} : AddInstallation(k)
    \/ \E k \in {"K1", "K3"} : RevokeInstallation(k)

\* The record store as a reader of other people's records meets it.
StoreEnv ==
    \/ \E r \in ThirdPartyRecords(ReadDid, now) : OtherPublish(ReadDid, r, now)
    \/ DeleteSlot(ReadDid)

\* Records a client of another application, or the repository's owner by hand,
\* stores in the same collection under another record key.
OtherKeyRecords(d) ==
    { InboxRecord("0xInbox1", Btoa(SignWithInstallationKey("K3", d)), now),
      InboxRecord(Missing, Undefined, now) }

\* putRecord({repo: d, collection, rkey: k, record}) for a key k that the
\* host lists before self, and deleteRecord of it.
PublishOtherKey(d, record) ==
    /\ otherKeys[d] # <<record>>
    /\ otherKeys' = [otherKeys EXCEPT ![d] = <<record>>]
    /\ UNCHANGED <<coll, installs, revoked, now>>
    /\ UNCHANGED <<appVars, flowVars, chatVars, docVars, codecVars, viewVars>>

DeleteOtherKey(d) ==
    /\ otherKeys[d] # <<>>
    /\ otherKeys' = [otherKeys EXCEPT ![d] = <<>>]
    /\ UNCHANGED <<coll, installs, revoked, now>>
    /\ UNCHANGED <<appVars, flowVars, chatVars, docVars, codecVars, viewVars>>

\* The collection as listRecords meets it: records under other keys.
CollectionEnv ==
    \/ \E r \in OtherKeyRecords(ReadDid) : PublishOtherKey(ReadDid, r)
    \/ DeleteOtherKey(ReadDid)

\* The XMTP network as a reader meets it: devices come and go.
NetworkEnv ==
    \/ \E k \in Keys : AddInstallation(k)
    \/ \E k \in Keys : RevokeInstallation(k)

\* ------------------------------------------------------------------ App

\* The locals of a handler that is not running.
NoLocals ==
    /\ flowDid' = NoAgent
    /\ flowHasAccount' = FALSE
    /\ isNew' = FALSE
    /\ signatureBytes' = GarbageBytes
    /\ inboxStates' = <<>>

KeepLocals == UNCHANGED <<flowDid, flowHasAccount, isNew, signatureBytes, inboxStates>>

\* finally { setIsLoading(false) }: the handler is over.
Finish ==
    /\ isLoading' = FALSE
    /\ pc' = "idle"
    /\ NoLocals

\* The page is loaded again: component state starts over and the mount effect
\* reads localStorage; a stored session starts restoreBlueskySession.
Reload ==
    /\ agent' = NoAgent
    /\ xmtpClient' = NoClient
    /\ isLinked' = FALSE
    /\ hasExistingAccount' = (walletKey # NoKey)
    /\ isNew' = FALSE
    /\ signatureBytes' = GarbageBytes
    /\ inboxStates' = <<>>
    /\ IF storedSession # NoSession
       THEN /\ isLoading' = TRUE
            /\ status' = "Restoring Bluesky session..."
            /\ pc' = "resumeSession"
            /\ flowDid' = storedSession
            /\ flowHasAccount' = (walletKey # NoKey)
       ELSE /\ isLoading' = FALSE
            /\ status' = IF walletKey # NoKey
                         THEN "Welcome back! Connect your Bluesky account to continue."
                         ELSE ""
            /\ pc' = "idle"
            /\ flowDid' = NoAgent
            /\ flowHasAccount' = FALSE
    /\ showBackupModal' = FALSE
    /\ showRestoreModal' = FALSE
    /\ restorePassword' = ""
    /\ restoreFile' = NoFile
    /\ restoring' = NoRestore
    /\ UNCHANGED <<walletKey, storedSession>>
    /\ UNCHANGED <<envVars, chatVars, docVars, codecVars, inboxVars, msgVars>>

\* A restoreBlueskySession that keeps the stored session when it cannot be
\* resumed.
RestoreResumeKeepsExpired(ok) ==
    /\ pc = "resumeSession"
    /\ IF ok
       THEN /\ agent' = flowDid
            /\ IF flowHasAccount
               THEN /\ status' = "Checking for existing identity link..."
                    /\ pc' = "getRecord"
                    /\ UNCHANGED isLoading
                    /\ KeepLocals
               ELSE /\ status' = "Bluesky session restored!"
                    /\ Finish
       ELSE /\ status' = IF flowHasAccount
                         THEN "Welcome back! Your Bluesky session expired. Please reconnect."
                         ELSE ""
            /\ UNCHANGED agent
            /\ Finish
    /\ UNCHANGED <<xmtpClient, isLinked, hasExistingAccount, walletKey, storedSession>>
    /\ UNCHANGED <<envVars, chatVars, docVars, codecVars, viewVars>>

\* restoreBlueskySession after await agent.resumeSession(session).
RestoreResume(ok) ==
    /\ pc = "resumeSession"
    /\ IF ok
       THEN /\ agent' = flowDid
            /\ UNCHANGED storedSession
            /\ IF flowHasAccount
               THEN /\ status' = "Checking for existing identity link..."
                    /\ pc' = "getRecord"
                    /\ UNCHANGED isLoading
                    /\ KeepLocals
               ELSE /\ status' = "Bluesky session restored!"
                    /\ Finish
       ELSE /\ storedSession' = NoSession
            /\ status' = IF flowHasAccount
                         THEN "Welcome back! Your Bluesky session expired. Please reconnect."
                         ELSE ""
            /\ UNCHANGED agent
            /\ Finish
    /\ UNCHANGED <<xmtpClient, isLinked, hasExistingAccount, walletKey>>
    /\ UNCHANGED <<envVars, chatVars, docVars, codecVars, viewVars>>

\* loginToBluesky up to await newAgent.login(...); the button shows without
\* an agent and is disabled while isLoading.
LoginStart(filled) ==
    /\ agent = NoAgent
    /\ ~isLoading
    /\ IF filled
       THEN /\ isLoading' = TRUE
            /\ status' = "Connecting to Bluesky..."
            /\ pc' = "login"
            /\ flowHasAccount' = hasExistingAccount
       ELSE /\ status' = "Please fill in all fields"
            /\ UNCHANGED <<isLoading, pc, flowHasAccount>>
    /\ UNCHANGED <<agent, xmtpClient, isLinked, hasExistingAccount, walletKey, storedSession>>
    /\ UNCHANGED <<flowDid, isNew, signatureBytes, inboxStates>>
    /\ UNCHANGED <<envVars, chatVars, docVars, codecVars, viewVars>>

\* loginToBluesky after the login call: did is the session's DID, or the
\* login was refused.
LoginResume(ok, did) ==
    /\ pc = "login"
    /\ IF ok
       THEN /\ agent' = did
            /\ storedSession' = did
            /\ IF flowHasAccount
               THEN /\ status' = "Checking for existing identity link..."
                    /\ pc' = "getRecord"
                    /\ flowDid' = did
                    /\ UNCHANGED <<isLoading, flowHasAccount, isNew, signatureBytes, inboxStates>>
               ELSE /\ status' = "Successfully connected to Bluesky!"
                    /\ Finish
       ELSE /\ status' = "Connection failed"
            /\ UNCHANGED <<agent, storedSession>>
            /\ Finish
    /\ UNCHANGED <<xmtpClient, isLinked, hasExistingAccount, walletKey>>
    /\ UNCHANGED <<envVars, chatVars, docVars, codecVars, viewVars>>

\* logout: the button shows in the link section (agent set, not linked) and in
\* the linked section.
Logout ==
    /\ (agent # NoAgent \/ isLinked)
    /\ agent' = NoAgent
    /\ xmtpClient' = NoClient
    /\ isLinked' = FALSE
    /\ storedSession' = NoSession
    /\ status' = ""
    /\ UNCHANGED <<isLoading, hasExistingAccount, walletKey>>
    /\ UNCHANGED <<flowVars, envVars, chatVars, docVars, codecVars, viewVars>>

\* createEOASigner: the stored wallet key, or a new one that is stored.
CreateEOASigner ==
    walletKey' = IF walletKey = NoKey THEN LocalWallet ELSE walletKey

\* checkExistingIdentityLink after await getRecord: a record with a value goes
\* on to create the XMTP client; no record (getRecord throws) or a failed read
\* ends in the catch.
CheckGetRecord(ok) ==
    /\ pc = "getRecord"
    /\ IF ok /\ HasRecord(flowDid)
       THEN /\ CreateEOASigner
            /\ pc' = "checkCreate"
            /\ UNCHANGED <<status, isLoading>>
            /\ KeepLocals
       ELSE /\ status' = "Successfully connected to Bluesky! Ready to link identities."
            /\ Finish
            /\ UNCHANGED walletKey
    /\ UNCHANGED <<agent, xmtpClient, isLinked, hasExistingAccount, storedSession>>
    /\ UNCHANGED <<envVars, chatVars, docVars, codecVars, viewVars>>

\* checkExistingIdentityLink after await Client.create: the identities are
\* marked linked.
CheckCreateClient(ok) ==
    /\ pc = "checkCreate"
    /\ IF ok
       THEN /\ installs' = ClientCreate(installs, revoked)
            /\ xmtpClient' = InboxIdOf(walletKey)
            /\ isLinked' = TRUE
            /\ status' = "Welcome back! Your identities are already linked."
       ELSE /\ status' = "Successfully connected to Bluesky! Ready to link identities."
            /\ UNCHANGED <<installs, xmtpClient, isLinked>>
    /\ Finish
    /\ UNCHANGED <<agent, hasExistingAccount, walletKey, storedSession>>
    /\ UNCHANGED <<coll, otherKeys, revoked, now>>
    /\ UNCHANGED <<chatVars, docVars, codecVars, viewVars>>

\* linkIdentities up to await Client.create: the button shows with an agent
\* while not linked and is disabled while isLoading.
LinkStart ==
    /\ agent # NoAgent
    /\ ~isLinked
    /\ ~isLoading
    /\ isLoading' = TRUE
    /\ CreateEOASigner
    /\ isNew' = (walletKey = NoKey)
    /\ status' = "Initializing XMTP client..."
    /\ flowDid' = agent
    /\ pc' = "create"
    /\ UNCHANGED <<agent, xmtpClient, isLinked, hasExistingAccount, storedSession>>
    /\ UNCHANGED <<flowHasAccount, signatureBytes, inboxStates>>
    /\ UNCHANGED <<envVars, chatVars, docVars, codecVars, viewVars>>

\* A rejected await of linkIdentities: the catch reports it.
LinkFailed ==
    /\ status' = "Identity linking failed"
    /\ Finish

\* linkIdentities after await Client.create.
LinkCreateClient(ok) ==
    /\ pc = "create"
    /\ IF ok
       THEN /\ installs' = ClientCreate(installs, revoked)
            /\ xmtpClient' = InboxIdOf(walletKey)
            /\ status' = "Signing identity link..."
            /\ pc' = "sign"
            /\ UNCHANGED isLoading
            /\ KeepLocals
       ELSE /\ LinkFailed
            /\ UNCHANGED <<installs, xmtpClient>>
    /\ UNCHANGED <<agent, isLinked, hasExistingAccount, walletKey, storedSession>>
    /\ UNCHANGED <<coll, otherKeys, revoked, now>>
    /\ UNCHANGED <<chatVars, docVars, codecVars, viewVars>>

\* A flow that signs the session's handle.
SignedHandle(did) == IF did = "did:plc:abc" THEN "alice.bsky.social" ELSE "bob.bsky.social"

\* A signed text that wraps the DID in a prefix.
SignedPrefixed(did) ==
    IF did = "did:plc:abc" THEN "xmtp-link:did:plc:abc" ELSE "xmtp-link:did:plc:other"

\* The text linkIdentities signs: agent.session.did.
SignedText(did) == did

\* linkIdentities after await client.signWithInstallationKey(did).
LinkSign ==
    /\ pc = "sign"
    /\ signatureBytes' = SignWithInstallationKey(LocalKey, SignedText(flowDid))
    /\ status' = "Publishing to Bluesky..."
    /\ pc' = "putRecord"
    /\ UNCHANGED <<agent, xmtpClient, isLinked, isLoading, hasExistingAccount,
                   walletKey, storedSession>>
    /\ UNCHANGED <<flowDid, flowHasAccount, isNew, inboxStates>>
    /\ UNCHANGED <<envVars, chatVars, docVars, codecVars, viewVars>>

\* A flow that goes on to the verification whether or not the publish
\* succeeded.
LinkPublishGoesOn(ok) ==
    /\ pc = "putRecord"
    /\ IF ok
       THEN \E t \in ClockReads :
                /\ now' = t
                /\ coll' = PutRecord(coll, flowDid,
                              InboxRecord(InboxIdOf(walletKey), Btoa(signatureBytes), t))
       ELSE UNCHANGED <<coll, now>>
    /\ status' = "Verifying link..."
    /\ pc' = "fetchInboxStates"
    /\ UNCHANGED isLoading
    /\ KeepLocals
    /\ UNCHANGED <<agent, xmtpClient, isLinked, hasExistingAccount, walletKey, storedSession>>
    /\ UNCHANGED <<otherKeys, installs, revoked>>
    /\ UNCHANGED <<chatVars, docVars, codecVars, viewVars>>

\* linkIdentities after await putRecord: the record is in the slot, or the
\* host refused or could not be reached.
LinkPublish(ok) ==
    /\ pc = "putRecord"
    /\ IF ok
       THEN /\ \E t \in ClockReads :
                  /\ now' = t
                  /\ coll' = PutRecord(coll, flowDid,
                                InboxRecord(InboxIdOf(walletKey), Btoa(signatureBytes), t))
            /\ status' = "Verifying link..."
            /\ pc' = "fetchInboxStates"
            /\ UNCHANGED isLoading
            /\ KeepLocals
       ELSE /\ LinkFailed
            /\ UNCHANGED <<coll, now>>
    /\ UNCHANGED <<agent, xmtpClient, isLinked, hasExistingAccount, walletKey, storedSession>>
    /\ UNCHANGED <<otherKeys, installs, revoked>>
    /\ UNCHANGED <<chatVars, docVars, codecVars, viewVars>>

\* linkIdentities after await Client.fetchInboxStates: inboxStates[0] is read;
\* without a state inboxState.installations throws.
LinkFetch(ok) ==
    /\ pc = "fetchInboxStates"
    /\ IF ok /\ Len(FetchInboxStates(InboxIdOf(walletKey))) > 0
       THEN /\ inboxStates' = FetchInboxStates(InboxIdOf(walletKey))
            /\ pc' = "verify"
            /\ UNCHANGED <<status, isLoading>>
            /\ UNCHANGED <<flowDid, flowHasAccount, isNew, signatureBytes>>
       ELSE /\ LinkFailed
    /\ UNCHANGED <<agent, xmtpClient, isLinked, hasExistingAccount, walletKey, storedSession>>
    /\ UNCHANGED <<envVars, chatVars, docVars, codecVars, viewVars>>

\* A flow that takes its record back when the verification fails.
LinkVerifyRollsBack ==
    /\ pc = "verify"
    /\ IF VerifyLoop(inboxStates[1].installations, flowDid, signatureBytes)
       THEN /\ isLinked' = TRUE
            /\ status' = "Identities successfully linked!"
            /\ showBackupModal' = (isNew \/ showBackupModal)
            /\ UNCHANGED coll
       ELSE /\ status' = "Link verification failed"
            /\ coll' = [coll EXCEPT ![flowDid] = <<>>]
            /\ UNCHANGED <<isLinked, showBackupModal>>
    /\ Finish
    /\ UNCHANGED <<agent, xmtpClient, hasExistingAccount, walletKey, storedSession>>
    /\ UNCHANGED <<otherKeys, installs, revoked, now>>
    /\ UNCHANGED <<showRestoreModal, restorePassword, restoreFile, restoring>>
    /\ UNCHANGED <<chatVars, docVars, codecVars, inboxVars, msgVars>>

\* A flow that opens the backup dialog after every successful verification.
LinkVerifyPromptsAlways ==
    /\ pc = "verify"
    /\ IF VerifyLoop(inboxStates[1].installations, flowDid, signatureBytes)
       THEN /\ isLinked' = TRUE
            /\ status' = "Identities successfully linked!"
            /\ showBackupModal' = TRUE
       ELSE /\ status' = "Link verification failed"
            /\ UNCHANGED <<isLinked, showBackupModal>>
    /\ Finish
    /\ UNCHANGED <<agent, xmtpClient, hasExistingAccount, walletKey, storedSession>>
    /\ UNCHANGED <<showRestoreModal, restorePassword, restoreFile, restoring>>
    /\ UNCHANGED <<envVars, chatVars, docVars, codecVars, inboxVars, msgVars>>

\* The verification of linkIdentities: the loop over the fetched
\* installations, on the bytes the flow signed.
IsValid == VerifyLoop(inboxStates[1].installations, flowDid, signatureBytes)

\* linkIdentities, the loop and the report.
LinkVerify ==
    /\ pc = "verify"
    /\ IF IsValid
       THEN /\ isLinked' = TRUE
            /\ status' = "Identities successfully linked!"
            /\ showBackupModal' = (isNew \/ showBackupModal)
       ELSE /\ status' = "Link verification failed"
            /\ UNCHANGED <<isLinked, showBackupModal>>
    /\ Finish
    /\ UNCHANGED <<agent, xmtpClient, hasExistingAccount, walletKey, storedSession>>
    /\ UNCHANGED <<showRestoreModal, restorePassword, restoreFile, restoring>>
    /\ UNCHANGED <<envVars, chatVars, docVars, codecVars, inboxVars, msgVars>>

\* handleBackup from the Download Backup button of the backup dialog: without
\* a password or a stored key only the status is set; the encrypted key is
\* downloaded and the dialog closed, or the catch reports the failure.
HandleBackup(filled, ok) ==
    /\ showBackupModal
    /\ IF ~filled
       THEN /\ status' = "Please enter a password"
            /\ UNCHANGED showBackupModal
       ELSE IF walletKey = NoKey
       THEN /\ status' = "No key to backup"
            /\ UNCHANGED showBackupModal
       ELSE IF ok
       THEN /\ showBackupModal' = FALSE
            /\ status' = "Key backed up successfully!"
       ELSE /\ status' = "Backup failed"
            /\ UNCHANGED showBackupModal
    /\ UNCHANGED <<agent, xmtpClient, isLinked, isLoading, hasExistingAccount, walletKey,
                   storedSession>>
    /\ UNCHANGED <<showRestoreModal, restorePassword, restoreFile, restoring>>
    /\ UNCHANGED <<flowVars, envVars, chatVars, docVars, codecVars, inboxVars, msgVars>>

\* The Skip button of the backup dialog.
SkipBackup ==
    /\ showBackupModal
    /\ showBackupModal' = FALSE
    /\ UNCHANGED <<showRestoreModal, restorePassword, restoreFile, restoring>>
    /\ UNCHANGED <<appVars, flowVars, envVars, chatVars, docVars, codecVars, inboxVars, msgVars>>

Next ==
    \/ Reload
    \/ \E ok \in BOOLEAN : RestoreResume(ok)
    \/ \E filled \in BOOLEAN : LoginStart(filled)
    \/ \E ok \in BOOLEAN, did \in DIDs : LoginResume(ok, did)
    \/ Logout
    \/ \E ok \in BOOLEAN : CheckGetRecord(ok)
    \/ \E ok \in BOOLEAN : CheckCreateClient(ok)
    \/ LinkStart
    \/ \E ok \in BOOLEAN : LinkCreateClient(ok)
    \/ LinkSign
    \/ \E ok \in BOOLEAN : LinkPublish(ok)
    \/ \E ok \in BOOLEAN : LinkFetch(ok)
    \/ LinkVerify
    \/ \E filled \in BOOLEAN, ok \in BOOLEAN : HandleBackup(filled, ok)
    \/ SkipBackup
    \/ AppEnv

Spec == Init /\ [][Next]_vars

\* The App when every awaited call settles except putRecord: the runtime
\* resumes a handler as soon as the promise it awaits settles, and no await of
\* the App has a timeout, so whether a handler resumes is up to the
\* collaborator; here the XMTP network and the Bluesky session calls answer
\* and the repository host's putRecord may never do.
Settles ==
    /\ WF_vars(\E ok \in BOOLEAN : RestoreResume(ok))
    /\ WF_vars(\E ok \in BOOLEAN, did \in DIDs : LoginResume(ok, did))
    /\ WF_vars(\E ok \in BOOLEAN : CheckGetRecord(ok))
    /\ WF_vars(\E ok \in BOOLEAN : CheckCreateClient(ok))
    /\ WF_vars(\E ok \in BOOLEAN : LinkCreateClient(ok))
    /\ WF_vars(LinkSign)
    /\ WF_vars(\E ok \in BOOLEAN : LinkFetch(ok))
    /\ WF_vars(LinkVerify)

LiveSpec == Init /\ [][Next]_vars /\ Settles

\* -------------------------------------------------------------- resolver

\* What the user may type into the new-chat form.
Handles == {"alice.bsky.social", "bob.bsky.social", "ghost.bsky.social"}
Identifiers == {"did:plc:abc", NoRepoDid, "not a handle", "", " "} \cup Handles

\* identifier.trim(): of what the user may type, only the blank changes.
TrimIdentifier(s) == IF s = " " THEN "" ELSE s

\* identifier.startsWith('did:')
StartsWithDid(s) == s \in DIDs \cup {NoRepoDid}

\* isValidIdentifier: a DID, or a string of the handle format.
IsValidIdentifier(s) == StartsWithDid(s) \/ s \in Handles

\* com.atproto.identity.resolveHandle: the DID of a handle the network knows.
HandleKnown(h) == h \in {"alice.bsky.social", "bob.bsky.social"}
ResolveHandle(h) == IF h = "alice.bsky.social" THEN "did:plc:abc" ELSE "did:plc:other"

Null == "null"

\* resolveInboxId, lines 38-45: the id of the first record, when there is one
\* and it has an id.
FirstRecordId(records) ==
    IF Len(records) > 0 /\ records[1].id # Missing
    THEN records[1].id
    ELSE Null

\* A catch that passes on what is not "Could not find repo" and, for that
\* message, tests the wrong property of the error.
ResolveCatchRethrows(message) == "rethrow"

\* resolveInboxId, the catch: every error becomes the return value null.
ResolveCatch(message) == Null

\* --------------------------------------------------------- NewChatModal

\* handleSubmit is over: finally { setIsResolving(false) }.
ChatFinish ==
    /\ isResolving' = FALSE
    /\ chatPc' = "idle"
    /\ chatDid' = NoAgent
    /\ chatRecords' = <<>>
    /\ inboxId' = Missing
    /\ chatIdentifier' = ""

\* The parent opens the modal.
ChatOpen ==
    /\ ~isOpen
    /\ isOpen' = TRUE
    /\ UNCHANGED <<chatPc, identifier, chatDid, chatRecords, inboxId, error, isResolving,
                   dms, chatIdentifier>>
    /\ UNCHANGED <<envVars, appVars, flowVars, docVars, codecVars, viewVars>>

\* handleClose from the Cancel button, which is not disabled while resolving.
ChatCancel ==
    /\ isOpen
    /\ identifier' = ""
    /\ error' = Null
    /\ isOpen' = FALSE
    /\ UNCHANGED <<chatPc, chatDid, chatRecords, inboxId, isResolving, dms, chatIdentifier>>
    /\ UNCHANGED <<envVars, appVars, flowVars, docVars, codecVars, viewVars>>

\* The user edits the input (disabled while resolving).
ChatType(text) ==
    /\ isOpen
    /\ ~isResolving
    /\ identifier # text
    /\ identifier' = text
    /\ UNCHANGED <<chatPc, chatDid, chatRecords, inboxId, error, isResolving, dms,
                   isOpen, chatIdentifier>>
    /\ UNCHANGED <<envVars, appVars, flowVars, docVars, codecVars, viewVars>>

\* A handleSubmit that resolves whatever was typed.
ChatSubmitUnvalidated ==
    /\ isOpen
    /\ ~isResolving
    /\ TrimIdentifier(identifier) # ""
    /\ error' = Null
    /\ isResolving' = TRUE
    /\ chatIdentifier' = TrimIdentifier(identifier)
    /\ IF StartsWithDid(TrimIdentifier(identifier))
       THEN chatDid' = TrimIdentifier(identifier) /\ chatPc' = "listRecords"
       ELSE chatDid' = NoAgent /\ chatPc' = "resolveHandle"
    /\ UNCHANGED <<identifier, chatRecords, inboxId, dms, isOpen>>
    /\ UNCHANGED <<envVars, appVars, flowVars, docVars, codecVars, viewVars>>

\* handleSubmit up to the first await of resolveInboxId: the submit button is
\* disabled while resolving, and a blank identifier returns at once.
ChatSubmit ==
    /\ isOpen
    /\ ~isResolving
    /\ TrimIdentifier(identifier) # ""
    /\ IF ~IsValidIdentifier(TrimIdentifier(identifier))
       THEN /\ error' = "Please enter a valid AT handle (e.g., user.bsky.social) or DID"
            /\ UNCHANGED <<chatPc, chatDid, isResolving, chatIdentifier>>
       ELSE /\ error' = Null
            /\ isResolving' = TRUE
            /\ chatIdentifier' = TrimIdentifier(identifier)
            /\ IF StartsWithDid(TrimIdentifier(identifier))
               THEN chatDid' = TrimIdentifier(identifier) /\ chatPc' = "listRecords"
               ELSE chatDid' = NoAgent /\ chatPc' = "resolveHandle"
    /\ UNCHANGED <<identifier, chatRecords, inboxId, dms, isOpen>>
    /\ UNCHANGED <<envVars, appVars, flowVars, docVars, codecVars, viewVars>>

\* What handleSubmit does with the value resolveInboxId returned.
ChatResolved(value) ==
    IF value = "rethrow"
    THEN /\ error' = "Failed to create conversation. Please try again."
         /\ ChatFinish
    ELSE IF value = Null
         THEN /\ error' = "Could not find XMTP inbox for this identifier. Make sure they have linked their identity."
              /\ ChatFinish
         ELSE /\ inboxId' = value
              /\ chatPc' = "list"
              /\ UNCHANGED <<error, isResolving, chatDid, chatIdentifier>>

\* A resolver that reads the repository named by the handle itself.
ChatResolveHandleSkipped(ok) ==
    /\ chatPc = "resolveHandle"
    /\ chatDid' = chatIdentifier
    /\ chatPc' = "listRecords"
    /\ UNCHANGED <<chatRecords, inboxId, error, isResolving, chatIdentifier>>
    /\ UNCHANGED <<identifier, dms, isOpen>>
    /\ UNCHANGED <<envVars, appVars, flowVars, docVars, codecVars, viewVars>>

\* resolveInboxId after await resolveHandle.
ChatResolveHandle(ok) ==
    /\ chatPc = "resolveHandle"
    /\ IF ok /\ HandleKnown(chatIdentifier)
       THEN /\ chatDid' = ResolveHandle(chatIdentifier)
            /\ chatPc' = "listRecords"
            /\ UNCHANGED <<chatRecords, inboxId, error, isResolving, chatIdentifier>>
       ELSE /\ ChatResolved(ResolveCatch("Unable to resolve handle"))
            /\ UNCHANGED chatRecords
    /\ UNCHANGED <<identifier, dms, isOpen>>
    /\ UNCHANGED <<envVars, appVars, flowVars, docVars, codecVars, viewVars>>

\* resolveInboxId after await listRecords, and its return to handleSubmit.
ChatListRecords(ok) ==
    /\ chatPc = "listRecords"
    /\ IF ~RepoExists(chatDid)
       THEN /\ ChatResolved(ResolveCatch("Could not find repo"))
            /\ UNCHANGED chatRecords
       ELSE IF ~ok
            THEN /\ ChatResolved(ResolveCatch("fetch failed"))
                 /\ UNCHANGED chatRecords
            ELSE IF FirstRecordId(ListRecords(chatDid)) = Null
                 THEN /\ ChatResolved(Null)
                 ELSE /\ ChatResolved(FirstRecordId(ListRecords(chatDid)))
                      /\ chatRecords' = ListRecords(chatDid)
    /\ UNCHANGED <<identifier, dms, isOpen>>
    /\ UNCHANGED <<envVars, appVars, flowVars, docVars, codecVars, viewVars>>

\* handleSubmit after await conversations.list(): find(() => false) finds
\* nothing.
ChatListConversations(ok) ==
    /\ chatPc = "list"
    /\ IF ok
       THEN /\ chatPc' = "createDm"
            /\ UNCHANGED <<chatDid, chatRecords, inboxId, error, isResolving, chatIdentifier>>
       ELSE /\ error' = "Failed to create conversation. Please try again."
            /\ ChatFinish
    /\ UNCHANGED <<identifier, dms, isOpen>>
    /\ UNCHANGED <<envVars, appVars, flowVars, docVars, codecVars, viewVars>>

\* handleSubmit after await conversations.createDm(inboxId): the conversation
\* is handed to the parent, onClose() and setIdentifier('').
ChatCreateDm(ok) ==
    /\ chatPc = "createDm"
    /\ IF ok
       THEN /\ dms' = dms \cup {inboxId}
            /\ isOpen' = FALSE
            /\ identifier' = ""
            /\ UNCHANGED error
       ELSE /\ error' = "Failed to create conversation. Please try again."
            /\ UNCHANGED <<dms, identifier, isOpen>>
    /\ ChatFinish
    /\ UNCHANGED <<envVars, appVars, flowVars, docVars, codecVars, viewVars>>

ChatNext ==
    \/ ChatOpen
    \/ \E text \in Identifiers : ChatType(text)
    \/ ChatSubmit
    \/ \E ok \in BOOLEAN : ChatResolveHandle(ok)
    \/ \E ok \in BOOLEAN : ChatListRecords(ok)
    \/ \E ok \in BOOLEAN : ChatListConversations(ok)
    \/ \E ok \in BOOLEAN : ChatCreateDm(ok)
    \/ StoreEnv
    \/ CollectionEnv

ChatSpec == Init /\ [][ChatNext]_vars

\* ------------------------------------ the reference flow of the document

\* Steps 3 and 4: the handle is resolved and lookupInboxForDid(did) reads the
\* slot; getRecord throws when there is no record, and nothing catches it.
DocLookup(did, ok) ==
    /\ docPc = "idle"
    /\ docDid' = did
    /\ IF ok /\ HasRecord(did)
       THEN /\ docValue' = GetRecord(did)
            /\ docResult' = "none"
            /\ docPc' = "verifySignature"
       ELSE /\ docValue' = InboxRecord(Missing, Undefined, 0)
            /\ docResult' = IF ok THEN "RecordNotFound" ELSE "fetch failed"
            /\ UNCHANGED docPc
    /\ UNCHANGED <<envVars, appVars, flowVars, chatVars, codecVars, viewVars>>

\* A field of a record value; a field the record does not have reads as
\* undefined.
Field(record, name, undefined) ==
    IF name \in DOMAIN record THEN record[name] ELSE undefined

\* "Step 3: Resolution" of the document: getRecord, destructured as
\* { inboxId, verificationSignature }, then verifySignature(inboxId, ...).
DocStep3Lookup(did, ok) ==
    /\ docPc = "idle"
    /\ docDid' = did
    /\ IF ok /\ HasRecord(did)
       THEN /\ docValue' = InboxRecord(Field(GetRecord(did), "inboxId", Missing),
                                       Field(GetRecord(did), "verificationSignature", Undefined),
                                       GetRecord(did).createdAt)
            /\ docResult' = "none"
            /\ docPc' = "verifySignature"
       ELSE /\ docValue' = InboxRecord(Missing, Undefined, 0)
            /\ docResult' = IF ok THEN "RecordNotFound" ELSE "fetch failed"
            /\ UNCHANGED docPc
    /\ UNCHANGED <<envVars, appVars, flowVars, chatVars, codecVars, viewVars>>

\* Step 5: verifySignature(result.id, did, result.verificationSignature)
\* after await Client.fetchInboxStates; a failed fetch throws.
DocVerify(ok) ==
    /\ docPc = "verifySignature"
    /\ docResult' = IF ok
                    THEN VerifySignature(FetchInboxStates(docValue.id), docDid,
                                         docValue.verificationSignature)
                    ELSE "fetch failed"
    /\ docPc' = "idle"
    /\ UNCHANGED <<docDid, docValue>>
    /\ UNCHANGED <<envVars, appVars, flowVars, chatVars, codecVars, viewVars>>

DocNext ==
    \/ \E did \in DIDs, ok \in BOOLEAN : DocLookup(did, ok)
    \/ \E did \in DIDs, ok \in BOOLEAN : DocStep3Lookup(did, ok)
    \/ \E ok \in BOOLEAN : DocVerify(ok)
    \/ StoreEnv
    \/ NetworkEnv

DocSpec == Init /\ [][DocNext]_vars

\* ------------------------------------------------------ the record codec

\* Byte values a signature may hold, and the longest signature drawn.
SignatureByteValues == {0, 77, 255}
ByteSeqs(n) == UNION { [1..m -> SignatureByteValues] : m \in 0..n }

\* The base64 alphabet by index: 0..63 are the digits, PadChar is '='.
PadChar == 64

\* An encoder that writes whole groups of three bytes only.
RECURSIVE EncodeWholeGroups(_)
EncodeWholeGroups(bytes) ==
    IF Len(bytes) < 3
    THEN <<>>
    ELSE << bytes[1] \div 4,
            (bytes[1] % 4) * 16 + bytes[2] \div 16,
            (bytes[2] % 16) * 4 + bytes[3] \div 64,
            bytes[3] % 64 >> \o EncodeWholeGroups(SubSeq(bytes, 4, Len(bytes)))

\* btoa(String.fromCharCode(...new Uint8Array(signatureBytes))): every three
\* bytes give four digits; one or two bytes left over give two or three
\* digits and padding.
RECURSIVE BtoaBytes(_)
BtoaBytes(bytes) ==
    IF Len(bytes) = 0
    THEN <<>>
    ELSE IF Len(bytes) = 1
    THEN << bytes[1] \div 4, (bytes[1] % 4) * 16, PadChar, PadChar >>
    ELSE IF Len(bytes) = 2
    THEN << bytes[1] \div 4,
            (bytes[1] % 4) * 16 + bytes[2] \div 16,
            (bytes[2] % 16) * 4,
            PadChar >>
    ELSE << bytes[1] \div 4,
            (bytes[1] % 4) * 16 + bytes[2] \div 16,
            (bytes[2] % 16) * 4 + bytes[3] \div 64,
            bytes[3] % 64 >> \o BtoaBytes(SubSeq(bytes, 4, Len(bytes)))

\* Buffer.from(verificationSignature, "base64"): every four digits give three
\* bytes; padding ends the input.
RECURSIVE BufferFromBase64Chars(_)
BufferFromBase64Chars(chars) ==
    IF Len(chars) < 2
    THEN <<>>
    ELSE IF Len(chars) = 2 \/ chars[3] = PadChar
    THEN << chars[1] * 4 + chars[2] \div 16 >>
    ELSE IF Len(chars) = 3 \/ chars[4] = PadChar
    THEN << chars[1] * 4 + chars[2] \div 16,
            (chars[2] % 16) * 16 + chars[3] \div 4 >>
    ELSE << chars[1] * 4 + chars[2] \div 16,
            (chars[2] % 16) * 16 + chars[3] \div 4,
            (chars[3] % 4) * 64 + chars[4] >>
         \o BufferFromBase64Chars(SubSeq(chars, 5, Len(chars)))

\* linkIdentities, lines 253-267: the installation key has produced bytes;
\* the record of client.inboxId, the encoded signature and the time is built.
CodecEncode(id, bytes, t) ==
    /\ codecPc = "idle"
    /\ rawRecord' = [id |-> id, bytes |-> bytes, createdAt |-> t]
    /\ wire' = InboxRecord(id, BtoaBytes(bytes), t)
    /\ codecPc' = "stored"
    /\ UNCHANGED decoded
    /\ UNCHANGED <<envVars, appVars, flowVars, chatVars, docVars, viewVars>>

\* The reader takes the fields of the stored record and decodes the
\* signature for verifySignedWithPublicKey.
CodecDecode ==
    /\ codecPc = "stored"
    /\ decoded' = [id |-> wire.id,
                   bytes |-> BufferFromBase64Chars(wire.verificationSignature),
                   createdAt |-> wire.createdAt]
    /\ codecPc' = "decoded"
    /\ UNCHANGED <<rawRecord, wire>>
    /\ UNCHANGED <<envVars, appVars, flowVars, chatVars, docVars, viewVars>>

\* The next record: the locals of the last one are gone.
CodecReset ==
    /\ codecPc = "decoded"
    /\ codecPc' = "idle"
    /\ rawRecord' = [id |-> Missing, bytes |-> <<>>, createdAt |-> 0]
    /\ wire' = InboxRecord(Missing, <<>>, 0)
    /\ decoded' = [id |-> Missing, bytes |-> <<>>, createdAt |-> 0]
    /\ UNCHANGED <<envVars, appVars, flowVars, chatVars, docVars, viewVars>>

CodecNext ==
    \/ \E id \in Inboxes, bytes \in ByteSeqs(MaxSignatureLen), t \in 0..MaxClock :
          CodecEncode(id, bytes, t)
    \/ CodecDecode
    \/ CodecReset

CodecSpec == Init /\ [][CodecNext]_vars

\* ------------------------------------------------------------ InboxView

OtherVars == <<envVars, appVars, flowVars, chatVars, docVars, codecVars, msgVars, modalVars>>

\* The slot the next loadConversations call takes.
HasFreeLoad == \E l \in 1..MaxLoads : loads[l].pc = "idle"
FreeLoad == CHOOSE l \in 1..MaxLoads :
                /\ loads[l].pc = "idle"
                /\ \A k \in 1..(l - 1) : loads[k].pc # "idle"

\* loadConversations up to await conversations.list().
StartLoad(ls) ==
    /\ ivLoading' = TRUE
    /\ ivError' = "null"
    /\ loads' = [ls EXCEPT ![FreeLoad] = LoadAt("list")]

\* The conversation the for loop of a load is at: conversationItems holds one
\* item for every conversation before it.
NextConv(load) == load.convs[Len(load.items) + 1]

\* The list is on screen: neither the spinner nor the error view replaces it.
ListShown == ~ivLoading /\ ivError = "null"

\* A click on an item that opens the conversation whatever its consent state.
ClickSelectsAny(i) ==
    /\ ListShown
    /\ i \in 1..Len(conversations)
    /\ selected' = conversations[i].conversation
    /\ UNCHANGED <<netList, netConsent, conversations, ivLoading, ivError, loads, streams>>
    /\ UNCHANGED OtherVars

\* The onClick of an item: onSelectConversation for an Allowed item only.
ClickItem(i) ==
    /\ ListShown
    /\ i \in 1..Len(conversations)
    /\ selected' = IF conversations[i].consentState = "Allowed"
                   THEN conversations[i].conversation
                   ELSE selected
    /\ UNCHANGED <<netList, netConsent, conversations, ivLoading, ivError, loads, streams>>
    /\ UNCHANGED OtherVars

\* A load that drops a conversation whose details could not be fetched.
LoadItemDropsOnFailure(l, ok) ==
    /\ loads[l].pc = "items"
    /\ LET c == NextConv(loads[l])
           items == IF ok THEN Append(loads[l].items, ConversationItem(c, netConsent[c]))
                    ELSE loads[l].items
       IN IF Len(loads[l].items) + 1 = Len(loads[l].convs)
          THEN /\ conversations' = items
               /\ ivLoading' = FALSE
               /\ loads' = [loads EXCEPT ![l] = NoLoad]
          ELSE /\ loads' = [loads EXCEPT ![l].items = items]
               /\ UNCHANGED <<conversations, ivLoading>>
    /\ UNCHANGED <<netList, netConsent, ivError, streams, selected>>
    /\ UNCHANGED OtherVars

\* loadConversations after await conversations.list(): the outer catch on a
\* failure; setConversations at once when there is no conversation.
LoadListed(l, ok) ==
    /\ loads[l].pc = "list"
    /\ IF ~ok
       THEN /\ ivError' = "Failed to load conversations"
            /\ ivLoading' = FALSE
            /\ loads' = [loads EXCEPT ![l] = NoLoad]
            /\ UNCHANGED conversations
       ELSE IF netList = <<>>
            THEN /\ conversations' = <<>>
                 /\ ivLoading' = FALSE
                 /\ loads' = [loads EXCEPT ![l] = NoLoad]
                 /\ UNCHANGED ivError
            ELSE /\ loads' = [loads EXCEPT ![l] =
                                [pc |-> "items", convs |-> netList, items |-> <<>>]]
                 /\ UNCHANGED <<conversations, ivLoading, ivError>>
    /\ UNCHANGED <<netList, netConsent, streams, selected>>
    /\ UNCHANGED OtherVars

\* loadConversations, one round of the loop: messages and consentState of the
\* next conversation are awaited; the inner catch lists the conversation as
\* Unknown. After the last round setConversations and the finally run.
LoadItem(l, ok) ==
    /\ loads[l].pc = "items"
    /\ LET c == NextConv(loads[l])
           items == Append(loads[l].items,
                           IF ok THEN ConversationItem(c, netConsent[c])
                           ELSE FallbackItem(c))
       IN IF Len(items) = Len(loads[l].convs)
          THEN /\ conversations' = items
               /\ ivLoading' = FALSE
               /\ loads' = [loads EXCEPT ![l] = NoLoad]
          ELSE /\ loads' = [loads EXCEPT ![l].items = items]
               /\ UNCHANGED <<conversations, ivLoading>>
    /\ UNCHANGED <<netList, netConsent, ivError, streams, selected>>
    /\ UNCHANGED OtherVars

\* The Retry button of the error view.
Retry ==
    /\ ivError # "null"
    /\ ~ivLoading
    /\ HasFreeLoad
    /\ StartLoad(loads)
    /\ UNCHANGED <<netList, netConsent, conversations, streams, selected>>
    /\ UNCHANGED OtherVars

\* handleApproveRequest / handleDenyRequest from the buttons of an Unknown
\* item: updateConsentState, then loadConversations; a failure is logged.
HandleConsentRequest(i, state, ok) ==
    /\ ListShown
    /\ i \in 1..Len(conversations)
    /\ conversations[i].consentState = "Unknown"
    /\ HasFreeLoad
    /\ IF ok
       THEN /\ netConsent' = [netConsent EXCEPT ![conversations[i].conversation] = state]
            /\ StartLoad(loads)
       ELSE UNCHANGED <<netConsent, ivLoading, ivError, loads>>
    /\ UNCHANGED <<netList, conversations, streams, selected>>
    /\ UNCHANGED OtherVars

\* The for-await loop of startConversationStream: consentState of the next
\* conversation is awaited and the item is prepended; a failure ends the loop
\* in the catch.
StreamDeliver(n, ok) ==
    /\ n \in 1..Len(streams)
    /\ streams[n].alive
    /\ streams[n].queue # <<>>
    /\ Len(conversations) < MaxShown
    /\ LET c == Head(streams[n].queue) IN
       IF ok
       THEN /\ conversations' = <<ConversationItem(c, netConsent[c])>> \o conversations
            /\ streams' = [streams EXCEPT ![n].queue = Tail(@)]
       ELSE /\ streams' = [streams EXCEPT ![n] = [alive |-> FALSE, queue |-> <<>>]]
            /\ UNCHANGED conversations
    /\ UNCHANGED <<netList, netConsent, ivLoading, ivError, loads, selected>>
    /\ UNCHANGED OtherVars

\* The effect of [xmtpClient] runs again for a new client object of the same
\* inbox: the cleanup only clears the conversationStream state, the loop of
\* the earlier stream goes on; a load and a stream are started.
EffectRerun ==
    /\ Len(streams) < MaxStreams
    /\ HasFreeLoad
    /\ StartLoad(loads)
    /\ streams' = Append(streams, [alive |-> TRUE, queue |-> <<>>])
    /\ UNCHANGED <<netList, netConsent, conversations, selected>>
    /\ UNCHANGED OtherVars

\* The network: a conversation with this inbox is created; list() returns it
\* from now on and every running stream yields it.
NewConversation(c) ==
    /\ \A n \in 1..Len(netList) : netList[n] # c
    /\ netList' = Append(netList, c)
    /\ streams' = [n \in 1..Len(streams) |->
                     IF streams[n].alive
                     THEN [streams[n] EXCEPT !.queue = Append(@, c)]
                     ELSE streams[n]]
    /\ UNCHANGED <<netConsent, conversations, ivLoading, ivError, loads, selected>>
    /\ UNCHANGED OtherVars

\* The peer of conversation c1 links its inbox to its DID.
PeerPublish ==
    /\ ~HasRecord(ReadDid)
    /\ OtherPublish(ReadDid,
           InboxRecord("0xInbox2", Btoa(SignWithInstallationKey("K2", ReadDid)), now), now)

InboxNext ==
    \/ \E l \in 1..MaxLoads, ok \in BOOLEAN : LoadListed(l, ok)
    \/ \E l \in 1..MaxLoads, ok \in BOOLEAN : LoadItem(l, ok)
    \/ Retry
    \/ \E i \in 1..MaxShown, state \in {"Allowed", "Denied"}, ok \in BOOLEAN :
          HandleConsentRequest(i, state, ok)
    \/ \E i \in 1..MaxShown : ClickItem(i)
    \/ \E n \in 1..MaxStreams, ok \in BOOLEAN : StreamDeliver(n, ok)
    \/ EffectRerun
    \/ \E c \in Convs : NewConversation(c)

InboxSpec == Init /\ [][InboxNext]_vars

\* The loads of the list while the peer publishes its link.
PeerNext ==
    \/ \E l \in 1..MaxLoads, ok \in BOOLEAN : LoadListed(l, ok)
    \/ \E l \in 1..MaxLoads, ok \in BOOLEAN : LoadItem(l, ok)
    \/ Retry
    \/ \E n \in 1..MaxStreams, ok \in BOOLEAN : StreamDeliver(n, ok)
    \/ \E c \in Convs : NewConversation(c)
    \/ PeerPublish

PeerSpec == Init /\ [][PeerNext]_vars

\* NewChatModal with its Cancel button, while the peer publishes its link.
ModalNext ==
    \/ ChatOpen
    \/ ChatCancel
    \/ \E text \in Identifiers : ChatType(text)
    \/ ChatSubmit
    \/ \E ok \in BOOLEAN : ChatResolveHandle(ok)
    \/ \E ok \in BOOLEAN : ChatListRecords(ok)
    \/ \E ok \in BOOLEAN : ChatListConversations(ok)
    \/ \E ok \in BOOLEAN : ChatCreateDm(ok)
    \/ PeerPublish

ModalSpec == Init /\ [][ModalNext]_vars

\* ---------------------------------------------------------- MessageView

MsgOtherVars == <<envVars, appVars, flowVars, chatVars, docVars, codecVars, inboxVars,
                  modalVars>>

\* loadMessages of the render whose conversation is c, up to await
\* conversation.messages(); fromSend tells that sendMessage awaits it.
StartLoadMessages(c, fromSend) ==
    /\ mvLoading' = TRUE
    /\ mvError' = "null"
    /\ msgLoads' = Append(msgLoads, [conversation |-> c, fromSend |-> fromSend])

RemoveAt(seq, k) == [n \in 1..(Len(seq) - 1) |-> IF n < k THEN seq[n] ELSE seq[n + 1]]

\* The parent renders MessageView with another conversation, or with none:
\* the effect of [conversation] calls loadMessages or clears the messages.
SelectConversation(c) ==
    /\ c # conversation
    /\ conversation' = c
    /\ IF c # NoClient
       THEN /\ Len(msgLoads) < MaxMsgLoads
            /\ StartLoadMessages(c, FALSE)
            /\ UNCHANGED messages
       ELSE /\ messages' = <<>>
            /\ UNCHANGED <<mvLoading, mvError, msgLoads>>
    /\ UNCHANGED <<netMessages, newMessage, mvSending, sending>>
    /\ UNCHANGED MsgOtherVars

\* loadMessages after await conversation.messages(): setMessages, or the
\* error of the catch; setIsLoading(false) in the finally. The finally of a
\* sendMessage that awaited this call follows.
MessagesLoaded(k, ok) ==
    /\ k \in 1..Len(msgLoads)
    /\ IF ok
       THEN /\ messages' = MessageItems(netMessages[msgLoads[k].conversation])
            /\ UNCHANGED mvError
       ELSE /\ mvError' = "Failed to load messages"
            /\ UNCHANGED messages
    /\ mvLoading' = FALSE
    /\ mvSending' = IF msgLoads[k].fromSend THEN FALSE ELSE mvSending
    /\ msgLoads' = RemoveAt(msgLoads, k)
    /\ UNCHANGED <<conversation, netMessages, newMessage, sending>>
    /\ UNCHANGED MsgOtherVars

\* The Retry button of the error view: loadMessages of the current render.
RetryMessages ==
    /\ ~mvLoading
    /\ mvError # "null"
    /\ conversation # NoClient
    /\ Len(msgLoads) < MaxMsgLoads
    /\ StartLoadMessages(conversation, FALSE)
    /\ UNCHANGED <<conversation, netMessages, messages, newMessage, mvSending, sending>>
    /\ UNCHANGED MsgOtherVars

\* A sendMessage that does not look at isSending.
SendMessageWhileSending ==
    /\ conversation # NoClient
    /\ Trim(newMessage) # ""
    /\ mvSending' = TRUE
    /\ sending' = [conversation |-> conversation, text |-> Trim(newMessage)]
    /\ UNCHANGED <<conversation, netMessages, messages, newMessage, mvLoading, mvError,
                   msgLoads>>
    /\ UNCHANGED MsgOtherVars

\* The user edits the message box; the box is disabled while isSending.
TypeMessage(draft) ==
    /\ ~mvSending
    /\ draft # newMessage
    /\ newMessage' = draft
    /\ UNCHANGED <<conversation, netMessages, messages, mvLoading, mvSending, mvError,
                   msgLoads, sending>>
    /\ UNCHANGED MsgOtherVars

\* sendMessage up to await conversation.sendText().
SendMessage ==
    /\ conversation # NoClient
    /\ Trim(newMessage) # ""
    /\ ~mvSending
    /\ mvSending' = TRUE
    /\ sending' = [conversation |-> conversation, text |-> Trim(newMessage)]
    /\ UNCHANGED <<conversation, netMessages, messages, newMessage, mvLoading, mvError,
                   msgLoads>>
    /\ UNCHANGED MsgOtherVars

\* sendMessage after await conversation.sendText(): the box is cleared and
\* loadMessages of the same render is awaited; the catch and the finally on a
\* failure.
SendDone(ok) ==
    /\ sending # NoSend
    /\ sending' = NoSend
    /\ IF ok
       THEN /\ Len(netMessages[sending.conversation]) < MaxMessages
            /\ Len(msgLoads) < MaxMsgLoads
            /\ netMessages' = [netMessages EXCEPT ![sending.conversation] =
                                 Append(@, Message(sending.conversation, Len(@) + 1, LocalInbox,
                                                   sending.text))]
            /\ newMessage' = ""
            /\ StartLoadMessages(sending.conversation, TRUE)
            /\ UNCHANGED mvSending
       ELSE /\ mvError' = "Failed to send message"
            /\ mvSending' = FALSE
            /\ UNCHANGED <<netMessages, newMessage, mvLoading, msgLoads>>
    /\ UNCHANGED <<conversation, messages>>
    /\ UNCHANGED MsgOtherVars

\* The network: the peer sends a message to conversation c.
PeerMessage(c) ==
    /\ Len(netMessages[c]) < MaxMessages
    /\ netMessages' = [netMessages EXCEPT ![c] =
                         Append(@, Message(c, Len(@) + 1, "0xInbox2", "yo"))]
    /\ UNCHANGED <<conversation, messages, newMessage, mvLoading, mvSending, mvError,
                   msgLoads, sending>>
    /\ UNCHANGED MsgOtherVars

MessageNext ==
    \/ \E c \in Convs \cup {NoClient} : SelectConversation(c)
    \/ \E k \in 1..MaxMsgLoads, ok \in BOOLEAN : MessagesLoaded(k, ok)
    \/ RetryMessages
    \/ \E draft \in Drafts : TypeMessage(draft)
    \/ SendMessage
    \/ \E ok \in BOOLEAN : SendDone(ok)
    \/ \E c \in Convs : PeerMessage(c)

MessageSpec == Init /\ [][MessageNext]_vars

\* ------------------------------------------------- App: restore from backup

RestoreOtherVars == <<envVars, flowVars, chatVars, docVars, codecVars, inboxVars, msgVars>>

\* The Restore from backup link of the login section.
OpenRestore ==
    /\ agent = NoAgent
    /\ ~showRestoreModal
    /\ showRestoreModal' = TRUE
    /\ UNCHANGED <<showBackupModal, restorePassword, restoreFile, restoring>>
    /\ UNCHANGED <<appVars, RestoreOtherVars>>

\* The Cancel button of the restore dialog.
CancelRestore ==
    /\ showRestoreModal
    /\ showRestoreModal' = FALSE
    /\ UNCHANGED <<showBackupModal, restorePassword, restoreFile, restoring>>
    /\ UNCHANGED <<appVars, RestoreOtherVars>>

\* The file input and the password input of the restore dialog.
PickRestoreFile(file) ==
    /\ showRestoreModal
    /\ file # restoreFile
    /\ restoreFile' = file
    /\ UNCHANGED <<showBackupModal, showRestoreModal, restorePassword, restoring>>
    /\ UNCHANGED <<appVars, RestoreOtherVars>>

TypeRestorePassword(password) ==
    /\ showRestoreModal
    /\ password # restorePassword
    /\ restorePassword' = password
    /\ UNCHANGED <<showBackupModal, showRestoreModal, restoreFile, restoring>>
    /\ UNCHANGED <<appVars, RestoreOtherVars>>

\* A handleRestore that closes the dialog whatever the outcome.
HandleRestoreDoneClosesAlways(ok) ==
    /\ restoring # NoRestore
    /\ restoring' = NoRestore
    /\ LET privateKey == IF ok THEN DecryptPrivateKey(restoring.file, restoring.password)
                         ELSE Throws
       IN IF privateKey # Throws
          THEN /\ walletKey' = privateKey
               /\ hasExistingAccount' = TRUE
               /\ restorePassword' = ""
               /\ restoreFile' = NoFile
               /\ status' = "Key restored successfully! You can now connect your Bluesky account."
          ELSE /\ status' = "Restore failed"
               /\ UNCHANGED <<walletKey, hasExistingAccount, restorePassword, restoreFile>>
    /\ showRestoreModal' = FALSE
    /\ UNCHANGED <<agent, xmtpClient, isLinked, isLoading, storedSession, showBackupModal>>
    /\ UNCHANGED RestoreOtherVars

\* handleRestore up to await restoreFile.text(): without a file or a password
\* only the status is set.
HandleRestoreStart ==
    /\ showRestoreModal
    /\ restoring = NoRestore
    /\ IF restoreFile = NoFile \/ restorePassword = ""
       THEN /\ status' = "Please select a file and enter password"
            /\ UNCHANGED restoring
       ELSE /\ restoring' = [file |-> restoreFile, password |-> restorePassword]
            /\ UNCHANGED status
    /\ UNCHANGED <<agent, xmtpClient, isLinked, isLoading, hasExistingAccount, walletKey,
                   storedSession>>
    /\ UNCHANGED <<showBackupModal, showRestoreModal, restorePassword, restoreFile>>
    /\ UNCHANGED RestoreOtherVars

\* handleRestore after await restoreFile.text() and await decryptPrivateKey:
\* the key is stored and the dialog closed and emptied, or the catch reports
\* the failure.
HandleRestoreDone(ok) ==
    /\ restoring # NoRestore
    /\ restoring' = NoRestore
    /\ LET privateKey == IF ok THEN DecryptPrivateKey(restoring.file, restoring.password)
                         ELSE Throws
       IN IF privateKey # Throws
          THEN /\ walletKey' = privateKey
               /\ hasExistingAccount' = TRUE
               /\ showRestoreModal' = FALSE
               /\ restorePassword' = ""
               /\ restoreFile' = NoFile
               /\ status' = "Key restored successfully! You can now connect your Bluesky account."
          ELSE /\ status' = "Restore failed"
               /\ UNCHANGED <<walletKey, hasExistingAccount, showRestoreModal,
                              restorePassword, restoreFile>>
    /\ UNCHANGED <<agent, xmtpClient, isLinked, isLoading, storedSession, showBackupModal>>
    /\ UNCHANGED RestoreOtherVars

\* The login section with the restore dialog, before any login.
KeyNext ==
    \/ Reload
    \/ OpenRestore
    \/ CancelRestore
    \/ \E file \in BackupFiles \cup {NoFile} : PickRestoreFile(file)
    \/ \E password \in Passwords : TypeRestorePassword(password)
    \/ HandleRestoreStart
    \/ \E ok \in BOOLEAN : HandleRestoreDone(ok)

KeySpec == Init /\ [][KeyNext]_vars

\* ================================================================ claims

LinkedStatus == "Identities successfully linked!"
LinkReports == {LinkedStatus, "Link verification failed"}
NotFoundError ==
    "Could not find XMTP inbox for this identifier. Make sure they have linked their identity."

\* The step of linkIdentities that ends the verification loop and reports.
LinkReportStep == pc = "verify" /\ status' \in LinkReports

\* The record is a link of inbox id to d signed by an installation key of id.
GenuineLink(record, d) ==
    \E k \in Keys :
        /\ KeyOwner(k) = record.id
        /\ record.verificationSignature = Btoa(SignWithInstallationKey(k, d))

\* C1: when the link flow has signed the session's DID with this browser's
\* installation key, has published the record, and that installation is in the
\* installation set it then fetched, the verification is true and the flow
\* ends with the identities marked linked.
C1_LinkOfActiveInstallationVerifies ==
    [][ (LinkReportStep /\ KeyInList(LocalKey, inboxStates[1].installations))
            => (isLinked' /\ status' = LinkedStatus) ]_vars

W1_LinkedAfterPublish ==
    /\ isLinked
    /\ status = LinkedStatus
    /\ agent \in DIDs
    /\ HasRecord(agent)
    /\ GetRecord(agent) \in
          { InboxRecord(LocalInbox, Btoa(SignWithInstallationKey(LocalKey, agent)), t) :
              t \in 0..MaxClock }

X3_DmOnlyAfterVerification ==
    [][ (dms' # dms) =>
            VerifySignature(FetchInboxStates(inboxId), chatDid,
                            chatRecords[1].verificationSignature) = "true" ]_vars

\* C4: whenever the identities become marked linked, the slot of the
\* logged-in DID holds a record that names the inbox of the XMTP client shown
\* as linked and carries a signature of an installation of that inbox over
\* the DID.
X4_LinkedOnlyWithVerifiedRecord ==
    [][ (~isLinked /\ isLinked') =>
            /\ agent' \in DIDs
            /\ Len(coll'[agent']) > 0
            /\ coll'[agent'][1].id = xmtpClient'
            /\ GenuineLink(coll'[agent'][1], agent') ]_vars

X7_VerifiedRecordIsStoredRecord ==
    [][ (LinkReportStep /\ status' = LinkedStatus) =>
            /\ HasRecord(flowDid)
            /\ GetRecord(flowDid).id = LocalInbox
            /\ GetRecord(flowDid).verificationSignature = Btoa(signatureBytes) ]_vars

\* The inbox has no active installation: no state comes back for it, or the
\* state lists no installation.
NoActiveInstallation(id) ==
    \/ Len(FetchInboxStates(id)) = 0
    \/ FetchInboxStates(id)[1].installations = <<>>

\* C8: verifying against an inbox without an active installation gives the
\* result false, not an exception.
X8_NoInstallationVerifiesFalse ==
    [][ (/\ docPc = "verifySignature" /\ docPc' = "idle"
         /\ docResult' # "fetch failed"
         /\ NoActiveInstallation(docValue.id)) => docResult' = "false" ]_vars

\* C9: on a record of any content whose inbox the network knows, the verifier
\* ends with a boolean and throws nothing.
X9_VerifierNeverThrows ==
    [][ (/\ docPc = "verifySignature" /\ docPc' = "idle"
         /\ docResult' # "fetch failed"
         /\ Len(FetchInboxStates(docValue.id)) > 0) => docResult' \in {"true", "false"} ]_vars

\* The repository of d holds no association record: it does not exist, its
\* collection is empty, or the record has no id.
NoAssociation(d) ==
    \/ ~RepoExists(d)
    \/ otherKeys[d] \o coll[d] = <<>>
    \/ (otherKeys[d] \o coll[d])[1].id = Missing

\* C10: resolving an identifier whose repository holds no association record
\* returns null to handleSubmit, which reports "not found"; the read throws
\* nothing to it and no conversation is created.
C10_NoRecordResolvesToNull ==
    [][ (chatPc = "listRecords" /\ chatPc' # chatPc /\ NoAssociation(chatDid)) =>
            /\ chatPc' = "idle"
            /\ error' = NotFoundError
            /\ dms' = dms ]_vars

W10_NoRepoReportedNotFound ==
    /\ chatPc = "idle"
    /\ identifier = NoRepoDid
    /\ error = NotFoundError

\* C11: a repository read that failed in transport is surfaced to
\* handleSubmit as an outcome distinguishable from "no record": no step of
\* the resolver on a failed read of an existing repository is also a step it
\* takes on a successful read.
X11_FailedReadDistinctFromNotFound ==
    [][ (ChatListRecords(FALSE) /\ RepoExists(chatDid)) => ~ChatListRecords(TRUE) ]_vars

\* C20: a failed repository read or handle resolution is never reported to
\* the user as "no inbox linked".
X20_FailedFetchNotReportedNegative ==
    [][ ((ChatListRecords(FALSE) /\ RepoExists(chatDid)) \/ ChatResolveHandle(FALSE))
            => error' # NotFoundError ]_vars

\* C12: after every publish, by this flow or by another client of the same
\* account, the collection of the DID holds one record, and it is in full the
\* record of the putRecord that has just completed.
C12_SlotHoldsLastPublishedRecord ==
    [][ /\ \A d \in DIDs : Len(coll'[d]) <= 1
        /\ (pc = "putRecord" /\ pc' = "fetchInboxStates") =>
              coll'[flowDid] = <<InboxRecord(LocalInbox, Btoa(signatureBytes), now')>>
        /\ \A d \in DIDs :
              (coll'[d] # coll[d] /\ pc' = pc) =>
                  \/ coll'[d] = <<>>
                  \/ \E r \in TabRecords(d, now') : coll'[d] = <<r>>
      ]_vars

W12_OverwrittenByOtherClient ==
    /\ status = LinkedStatus
    /\ agent \in DIDs
    /\ HasRecord(agent)
    /\ GetRecord(agent) \in TabRecords(agent, now)
    /\ GetRecord(agent).id = "0xInbox2"

\* C13: what resolveInboxId returns for a DID is the inbox id of the record
\* stored in the (org.xmtp.inbox, self) slot of that DID, whatever else the
\* collection holds.
X13_ResolveReadsTheSlot ==
    [][ (chatPc = "listRecords" /\ chatPc' = "list") =>
            /\ HasRecord(chatDid)
            /\ inboxId' = GetRecord(chatDid).id ]_vars

\* C14: the record linkIdentities stores is stored under the DID it signed,
\* names the inbox of the signing client, and carries that client's
\* installation-key signature over exactly that DID; the DID then verified is
\* the DID that was signed.
C14_StoredSignatureIsOverItsRepo ==
    [][ /\ (pc = "putRecord" /\ pc' = "fetchInboxStates") =>
              /\ HasRecord(flowDid)'
              /\ GetRecord(flowDid)'.id = KeyOwner(LocalKey)
              /\ GetRecord(flowDid)'.verificationSignature =
                    Btoa(SignWithInstallationKey(LocalKey, flowDid))
              /\ \A d \in DIDs : coll'[d] # coll[d] => d = signatureBytes.msg
        /\ LinkReportStep =>
              /\ signatureBytes.msg = flowDid
              /\ (status' = LinkedStatus) <=>
                    VerifyLoop(inboxStates[1].installations, signatureBytes.msg,
                               signatureBytes)
      ]_vars

W14_PublishedRecordAwaitingVerification ==
    /\ pc = "verify"
    /\ HasRecord(flowDid)
    /\ GetRecord(flowDid).id = LocalInbox
    /\ GetRecord(flowDid).verificationSignature =
          Btoa(SignWithInstallationKey(LocalKey, flowDid))

\* C15: reading back and decoding a stored record gives the inbox id, the
\* signature bytes and the time the record was built from, for byte
\* sequences of every length modulo three and every byte value drawn.
C15_RecordRoundTrip ==
    /\ codecPc = "decoded" => decoded = rawRecord
    /\ codecPc # "idle" =>
          BufferFromBase64Chars(wire.verificationSignature) = rawRecord.bytes

W15_PaddedSignatureDecoded ==
    /\ codecPc = "decoded"
    /\ Len(rawRecord.bytes) = MaxSignatureLen
    /\ rawRecord.bytes[1] = 255
    /\ rawRecord.bytes[MaxSignatureLen] = 0
    /\ decoded.bytes = rawRecord.bytes

\* C16: every reader takes the inbox id and the signature from the fields
\* the publisher wrote: what a lookup hands to the verifier is the id and the
\* verificationSignature of the record in the slot.
X16_ReadersReadPublishedFields ==
    [][ (docPc = "idle" /\ docPc' = "verifySignature") =>
            /\ docValue'.id = GetRecord(docDid').id
            /\ docValue'.verificationSignature = GetRecord(docDid').verificationSignature
      ]_vars

\* C17: once the slot of a DID is deleted, resolveInboxId finds no
\* association for that DID: on the state the deletion leaves, a successful
\* read resolves to null.
X17_DeletedSlotResolvesToNull ==
    [][ \A d \in DIDs :
            (HasRecord(d) /\ ~HasRecord(d)') => FirstRecordId(ListRecords(d))' = Null
      ]_vars

\* The DID resolveInboxId reads for an identifier: the identifier itself
\* when it is a DID, else the DID the handle service maps the handle to.
DidOfIdentifier(s) ==
    IF s \in DIDs \cup {NoRepoDid} THEN s ELSE ResolveHandle(s)

\* C18: a DID goes to the repository read directly, with no handle
\* resolution; a handle goes to handle resolution first and to the repository
\* read only with the DID the service maps it to; and what the read returns
\* depends on that DID and the collection alone, so a handle of d resolves as
\* d does.
C18_HandleResolvesLikeDid ==
    [][ /\ (chatPc = "idle" /\ chatPc' # "idle") =>
              IF identifier \in DIDs \cup {NoRepoDid}
              THEN chatPc' = "listRecords" /\ chatDid' = identifier
              ELSE chatPc' = "resolveHandle" /\ chatDid' = NoAgent
        /\ (chatPc' = "listRecords") =>
              /\ chatDid' = DidOfIdentifier(chatIdentifier')
              /\ chatPc \in {"idle", "resolveHandle", "listRecords"}
              /\ (chatIdentifier \in Handles /\ chatPc # "listRecords") =>
                    (chatPc = "resolveHandle" /\ HandleKnown(chatIdentifier))
        /\ (chatPc = "listRecords" /\ chatPc' = "list") =>
              inboxId' = FirstRecordId(ListRecords(chatDid))
        /\ (chatPc = "listRecords" /\ ChatListRecords(TRUE)) =>
              \/ chatPc' = "list"
              \/ /\ chatPc' = "idle" /\ error' = NotFoundError
                 /\ RepoExists(chatDid) =>
                       FirstRecordId(ListRecords(DidOfIdentifier(chatIdentifier))) = Null
      ]_vars

W18_HandleResolvedToInbox ==
    /\ chatPc = "list"
    /\ identifier = "alice.bsky.social"
    /\ chatDid = "did:plc:abc"
    /\ inboxId \in Inboxes
    /\ inboxId = FirstRecordId(ListRecords("did:plc:abc"))

\* C19: when the putRecord of the link flow fails, the flow is over at once:
\* the failure is shown, no further putRecord and no verification follow,
\* isLinked is false and every slot is as it was.
C19_FailedPublishEndsTheFlow ==
    [][ LinkPublish(FALSE) =>
            /\ pc' = "idle"
            /\ status' = "Identity linking failed"
            /\ ~isLoading'
            /\ ~isLinked'
            /\ coll' = coll ]_vars

W19_PublishFailedNothingStored ==
    /\ pc = "idle"
    /\ status = "Identity linking failed"
    /\ ~isLinked
    /\ agent \in DIDs
    /\ ~HasRecord(agent)
    /\ walletKey = LocalWallet
    /\ KeyInList(LocalKey, installs[LocalInbox])

\* C21: every operation of the App that has set its busy flag eventually
\* clears it, also when the repository host never answers.
X21_BusyFlagEventuallyCleared == isLoading ~> ~isLoading

\* C22: publishing the same association again leaves the slot as it is: when
\* the slot already holds the record of this inbox with this signature, the
\* putRecord of the link flow does not change it.
X22_RepublishLeavesSlotUnchanged ==
    [][ (/\ pc = "putRecord" /\ pc' = "fetchInboxStates"
         /\ HasRecord(flowDid)
         /\ GetRecord(flowDid).id = InboxIdOf(walletKey)
         /\ GetRecord(flowDid).verificationSignature = Btoa(signatureBytes))
            => coll' = coll ]_vars

\* C24: handleSubmit creates a DM only with an inbox the client has no
\* conversation with yet.
X24_NoSecondDmForSameInbox ==
    [][ (chatPc = "createDm" /\ ChatCreateDm(TRUE)) => inboxId \notin dms ]_vars

\* C25: the identities are marked linked only while an agent is logged in.
X25_LinkedOnlyWithAgent == isLinked => agent # NoAgent

\* C26: linkIdentities never takes back what it published: when the
\* verification finds no matching installation, or the installation fetch
\* fails, every slot stays as it is and isLinked stays false.
C26_NoRollbackAfterPublish ==
    [][ ((LinkReportStep /\ status' = "Link verification failed") \/ LinkFetch(FALSE)) =>
            /\ coll' = coll
            /\ ~isLinked'
            /\ pc' = "idle" ]_vars

W26_PublishedButNotVerified ==
    /\ status = "Link verification failed"
    /\ pc = "idle"
    /\ ~isLinked
    /\ agent \in DIDs
    /\ HasRecord(agent)
    /\ GetRecord(agent).id = LocalInbox
    /\ GetRecord(agent).verificationSignature =
          Btoa(SignWithInstallationKey(LocalKey, agent))
    /\ LocalKey \in revoked[LocalInbox]

\* The conversationItems of load l after a step of it: the displayed list
\* after its last round, its own array before.
ItemsAfter(l) == IF loads'[l].pc = "idle" THEN conversations' ELSE loads'[l].items

\* DID d and inbox id have a verified association: the slot of d names the
\* inbox and the verifier returns true for its signature.
VerifiedAssociation(d, id) ==
    /\ HasRecord(d)
    /\ GetRecord(d).id = id
    /\ id \in Inboxes
    /\ VerifySignature(FetchInboxStates(id), d, GetRecord(d).verificationSignature) = "true"

\* C23: the lookup by inbox ID yields the DID: a round of loadConversations
\* that builds the item of a conversation whose peer inbox has a verified
\* association with a DID lists the conversation under that DID.
X23_VerifiedPeerListedByDid ==
    [][ \A l \in 1..MaxLoads : \A d \in DIDs :
          (/\ LoadItem(l, TRUE)
           /\ VerifiedAssociation(d, PeerInboxId(ConvObject(NextConv(loads[l])))))
          => ItemsAfter(l)[Len(ItemsAfter(l))].displayName = d ]_vars

\* C27: the displayed list never holds the same conversation twice.
X27_NoConversationTwice ==
    \A i, j \in 1..Len(conversations) :
        i # j => conversations[i].conversation # conversations[j].conversation

\* C28: every round of the loop of loadConversations adds exactly one item,
\* for the conversation list() returned at that position; a failed round adds
\* the item of the inner catch (consent state Unknown, name 'Unknown') and the
\* loop goes on; the list set at the end has one item per conversation
\* returned by list(), in the same order.
C28_OneItemPerListedConversation ==
    [][ \A l \in 1..MaxLoads :
          /\ (loads[l].pc = "items" /\ loads'[l] # loads[l]) =>
                /\ Len(ItemsAfter(l)) = Len(loads[l].items) + 1
                /\ \A k \in 1..Len(loads[l].items) : ItemsAfter(l)[k] = loads[l].items[k]
                /\ ItemsAfter(l)[Len(ItemsAfter(l))].conversation = NextConv(loads[l])
                /\ loads'[l].pc = "idle" <=> Len(ItemsAfter(l)) = Len(loads[l].convs)
                /\ loads'[l].pc = "idle" =>
                      \A k \in 1..Len(loads[l].convs) :
                          conversations'[k].conversation = loads[l].convs[k]
          /\ LoadItem(l, FALSE) =>
                /\ ItemsAfter(l)[Len(ItemsAfter(l))].consentState = "Unknown"
                /\ ItemsAfter(l)[Len(ItemsAfter(l))].displayName = "Unknown"
                /\ ivError' = ivError ]_vars

W28_FallbackItemThenLoadedItem ==
    /\ ListShown
    /\ Len(netList) = 2
    /\ Len(conversations) = 2
    /\ conversations[1] = FallbackItem(netList[1])
    /\ conversations[2] = ConversationItem(netList[2], "Unknown")

\* C30: a click opens a conversation only from an item whose consent state
\* is Allowed, and does open it then; the consent state of a conversation is
\* changed only from an item whose consent state is Unknown; a successful
\* Accept sets it to Allowed and starts the reload, and a round of a load that
\* reads the consent state lists the conversation with the state read.
C30_OpenedOnlyWithConsent ==
    [][ /\ selected' # selected =>
              \E i \in 1..Len(conversations) :
                  /\ conversations[i].conversation = selected'
                  /\ conversations[i].consentState = "Allowed"
        /\ \A i \in 1..Len(conversations) :
              (ClickItem(i) /\ conversations[i].consentState = "Allowed") =>
                  selected' = conversations[i].conversation
        /\ netConsent' # netConsent =>
              \E i \in 1..Len(conversations) :
                  /\ conversations[i].consentState = "Unknown"
                  /\ \A c \in Convs \ {conversations[i].conversation} :
                        netConsent'[c] = netConsent[c]
        /\ \A i \in 1..Len(conversations) :
              HandleConsentRequest(i, "Allowed", TRUE) =>
                  /\ netConsent'[conversations[i].conversation] = "Allowed"
                  /\ \E l \in 1..MaxLoads : loads[l].pc = "idle" /\ loads'[l].pc = "list"
        /\ \A l \in 1..MaxLoads :
              LoadItem(l, TRUE) =>
                  ItemsAfter(l)[Len(ItemsAfter(l))].consentState =
                      netConsent[NextConv(loads[l])] ]_vars

W30_AcceptedConversationOpened ==
    /\ ListShown
    /\ selected = "c1"
    /\ netConsent["c1"] = "Allowed"
    /\ \E i \in 1..Len(conversations) :
          conversations[i] = ConversationItem("c1", "Allowed")

\* C29: when another conversation was selected while a loadMessages call
\* was in flight, the result of that call does not replace the messages.
X29_LateLoadKeepsMessages ==
    [][ \A k \in 1..Len(msgLoads) :
          (/\ MessagesLoaded(k, TRUE)
           /\ conversation # NoClient
           /\ msgLoads[k].conversation # conversation)
          => messages' = messages ]_vars

\* C31: sendMessage starts a send only while none is in flight and isSending
\* is false, and only with a draft that is not blank, which it sends trimmed;
\* no blank text reaches the conversation; the draft is cleared by a
\* sendText that succeeded and kept by one that failed; isSending is true
\* only while a sendMessage call runs, and false when the call ends.
C31_OneSendInFlight ==
    [][ /\ (sending' # sending /\ sending' # NoSend) =>
              /\ sending = NoSend
              /\ ~mvSending
              /\ Trim(newMessage) # ""
              /\ sending'.text = Trim(newMessage)
        /\ \A c \in Convs : \A k \in 1..Len(netMessages'[c]) :
              Trim(netMessages'[c][k].content) # ""
        /\ newMessage' # newMessage =>
              \/ SendDone(TRUE) /\ newMessage' = ""
              \/ \E draft \in Drafts : TypeMessage(draft)
        /\ SendDone(FALSE) => (newMessage' = newMessage /\ ~mvSending')
        /\ \A k \in 1..Len(msgLoads) : \A ok \in BOOLEAN :
              (MessagesLoaded(k, ok) /\ msgLoads[k].fromSend) => ~mvSending'
        /\ mvSending' <=>
              \/ sending' # NoSend
              \/ \E k \in 1..Len(msgLoads') : msgLoads'[k].fromSend ]_vars

W31_SentOnceThenFailedSend ==
    /\ ~mvSending
    /\ mvError = "Failed to send message"
    /\ newMessage = " hi "
    /\ \E c \in Convs : \E k \in 1..Len(netMessages[c]) :
          netMessages[c][k] = Message(c, k, LocalInbox, "hi")

\* C32: the stored wallet key changes only from none to the generated key;
\* createEOASigner in linkIdentities leaves a key stored and reports isNew
\* exactly when none was stored before; the backup dialog opens only at the
\* end of a link flow that created the key and whose verification succeeded.
C32_WalletKeyCreatedOnce ==
    [][ /\ walletKey' # walletKey => (walletKey = NoKey /\ walletKey' = LocalWallet)
        /\ LinkStart => (walletKey' # NoKey /\ (isNew' <=> walletKey = NoKey))
        /\ (\E ok \in BOOLEAN : CheckGetRecord(ok)) =>
              (walletKey # NoKey => walletKey' = walletKey)
        /\ (showBackupModal' /\ ~showBackupModal) =>
              /\ pc = "verify"
              /\ isNew
              /\ IsValid
              /\ isLinked' ]_vars

W32_BackupPromptAfterFirstLink ==
    /\ showBackupModal
    /\ isLinked
    /\ pc = "idle"
    /\ walletKey = LocalWallet
    /\ status = "Identities successfully linked!"

\* C33: handleSubmit creates a DM only at the end of a call on a trimmed
\* identifier that is not blank and passes isValidIdentifier, with the inbox
\* ID resolveInboxId returned; an invalid identifier ends the call at once
\* with the validation error, before any resolution call; isResolving is true
\* exactly while a call runs; a call that ends without a DM leaves the modal
\* and the input as they are, and apart from the Cancel button and the user's
\* typing only a created DM closes the modal and clears the input.
C33_DmOnlyForValidResolvedIdentifier ==
    [][ /\ dms' # dms => ChatCreateDm(TRUE)
        /\ ChatCreateDm(TRUE) =>
              /\ chatIdentifier # ""
              /\ IsValidIdentifier(chatIdentifier)
              /\ inboxId \notin {Null, Missing}
              /\ dms' = dms \cup {inboxId}
              /\ ~isOpen' /\ identifier' = ""
        /\ (ChatSubmit /\ ~IsValidIdentifier(TrimIdentifier(identifier))) =>
              /\ chatPc' = "idle"
              /\ error' = "Please enter a valid AT handle (e.g., user.bsky.social) or DID"
              /\ isOpen' /\ identifier' = identifier
        /\ chatPc' # "idle" =>
              (IsValidIdentifier(chatIdentifier') /\ chatIdentifier' # "")
        /\ isResolving' <=> chatPc' # "idle"
        /\ (chatPc # "idle" /\ chatPc' = "idle" /\ ~ChatCreateDm(TRUE)) =>
              (isOpen' = isOpen /\ identifier' = identifier /\ error' # Null)
        /\ (isOpen /\ ~isOpen') => (ChatCancel \/ ChatCreateDm(TRUE))
        /\ (identifier' = "" /\ identifier # "") =>
              (ChatCancel \/ ChatType("") \/ ChatCreateDm(TRUE)) ]_vars

W33_DmCreatedModalClosed ==
    /\ chatPc = "idle"
    /\ ~isResolving
    /\ ~isOpen
    /\ identifier = ""
    /\ error = Null
    /\ dms = {"0xInbox2"}

\* C34: a handleRestore call without a file or a password, and one whose
\* file cannot be read or decrypted, leaves the stored wallet key,
\* hasExistingAccount and the restore dialog as they are and sets the status;
\* the stored key is replaced only by the key a call decrypted.
C34_FailedRestoreChangesNothing ==
    [][ /\ (HandleRestoreStart /\ (restoreFile = NoFile \/ restorePassword = "")) =>
              /\ UNCHANGED <<walletKey, hasExistingAccount, showRestoreModal,
                             restorePassword, restoreFile, restoring>>
              /\ status' = "Please select a file and enter password"
        /\ \A ok \in BOOLEAN :
              (/\ HandleRestoreDone(ok)
               /\ (~ok \/ DecryptPrivateKey(restoring.file, restoring.password) = Throws)) =>
                  /\ UNCHANGED <<walletKey, hasExistingAccount, showRestoreModal,
                                 restorePassword, restoreFile>>
                  /\ status' = "Restore failed"
        /\ walletKey' # walletKey =>
              /\ HandleRestoreDone(TRUE)
              /\ walletKey' = DecryptPrivateKey(restoring.file, restoring.password)
              /\ walletKey' # Throws ]_vars

W34_WrongPasswordKeepsRestoredKey ==
    /\ status = "Restore failed"
    /\ walletKey = OtherWallet
    /\ hasExistingAccount
    /\ showRestoreModal
    /\ restoreFile = EncryptPrivateKey(LocalWallet, "pw")
    /\ restorePassword = "wrong"
    /\ restoring = NoRestore

\* C35: a restoreBlueskySession whose resumeSession fails removes the stored
\* session and leaves no agent, no client and isLinked false; one whose
\* resumeSession succeeds sets the agent of the stored session and keeps the
\* stored session; logout removes the stored session and keeps the stored
\* wallet key; nothing else removes a stored session.
C35_SessionRestoreAllOrNothing ==
    [][ /\ RestoreResume(FALSE) =>
              /\ storedSession # NoSession
              /\ storedSession' = NoSession
              /\ agent' = NoAgent
              /\ xmtpClient' = NoClient
              /\ ~isLinked'
              /\ ~isLoading'
        /\ RestoreResume(TRUE) =>
              /\ agent' = storedSession
              /\ agent' # NoAgent
              /\ storedSession' = storedSession
              /\ storedSession' # NoSession
        /\ Logout =>
              /\ storedSession' = NoSession
              /\ walletKey' = walletKey
        /\ (storedSession # NoSession /\ storedSession' = NoSession) =>
              (Logout \/ RestoreResume(FALSE)) ]_vars

W35_ExpiredSessionRemovedKeyKept ==
    /\ pc = "idle"
    /\ storedSession = NoSession
    /\ agent = NoAgent
    /\ ~isLinked
    /\ ~isLoading
    /\ walletKey = LocalWallet
    /\ status = "Welcome back! Your Bluesky session expired. Please reconnect."

====
